---- MODULE Spec2Model ----
(***************************************************************************)
(* State-machine model of the node-link visualization engine               *)
(* (hooks/useForceGraph, src/unnamed/part_005 lines 301-947) together with *)
(* the parts of its host (MapView, src/unnamed/part_002) that drive it.    *)
(*                                                                         *)
(* Numbers.  The program computes with IEEE doubles; the model computes    *)
(* with scaled integers and rounds every product/quotient to the nearest   *)
(* unit:                                                                   *)
(*   - model-space and screen-space lengths, velocities: 1/PS of a unit,   *)
(*   - the transform scale k: 1/KS,                                        *)
(*   - angles: milliradians, cos/sin: 1/1000.                              *)
(* Pointer coordinates and viewport sizes are whole pixels.                *)
(*                                                                         *)
(* A value the program keeps in a local constant and reads several times   *)
(* is passed on as an operator parameter here, so that each operator       *)
(* evaluates it once.                                                      *)
(***************************************************************************)
EXTENDS Integers, Sequences, FiniteSets, TLC

VARIABLES
  nodes,              \* prop: Node[]
  links,              \* prop: Link[]
  dimensions,         \* prop: {width, height}
  layoutMode,         \* prop: 'graph' | 'orbit'
  weakestPathNode,    \* prop: Node | null
  parentMap,          \* memo (child id -> parent id)
  childrenMap,        \* memo (node id -> child ids)
  weakestPathNodes,   \* memo: sorted leaves of the focus path
  weakestPathLinks,   \* memo: synthetic links of the focus path
  pathNodeIds,        \* memo: ids highlighted while the focus path is active
  nodePositions,      \* ref: id -> {x, y, vx, vy}
  transform,          \* ref: {k, x, y}
  targetTransform,    \* ref: null | {k, x, y}
  isStable,           \* ref
  orbitCenteringDone, \* ref
  dragStartPos,       \* ref: client position of the last mousedown
  draggedNode,        \* ref: Node | null
  isDraggingNode,     \* ref
  isPanning,          \* ref
  hoveredNode,        \* ref: Node | null
  rafPending,         \* number of requested animation frames not yet run or cancelled
  rafIdLive,          \* animationFrameId.current names a pending frame
  downEnv,            \* what the registered handleMouseDown closes over
  moveEnv,            \* what the registered handleMouseMove closes over
  upEnv,              \* what the registered handleMouseUp closes over
  resetTimer,         \* host: the 100 ms resetView timer is pending
  pointer,            \* client position of the last mouse event (for movementX/Y)
  pc,                 \* "idle", "loopEffect" between the first effects of a commit and the loop
                      \* effect, or "unmounted" after the teardown
  lastOp,             \* history: the operation that produced this state and what it dispatched
  gesture,            \* history: what happened since the last mousedown
  budget,             \* remaining steps of each kind (bounds the exploration)
  randomValues,       \* the values Math.random() takes in this run, as percentages
  resizeTimer,        \* host: the 100 ms debounce timer of the resize listener is pending
  history,            \* history: entries pruned from the store, what started the resetView timer,
                      \* and the parity of the number of frames fired
  listView            \* host: the state of the mounted ListView, or null while the map is shown

vars == << nodes, links, dimensions, layoutMode, weakestPathNode, parentMap,
           childrenMap, weakestPathNodes, weakestPathLinks, pathNodeIds,
           nodePositions, transform, targetTransform, isStable,
           orbitCenteringDone, dragStartPos, draggedNode, isDraggingNode,
           isPanning, hoveredNode, rafPending, rafIdLive, downEnv, moveEnv,
           upEnv, resetTimer, pointer, pc, lastOp, gesture, budget, randomValues,
           resizeTimer, history, listView >>

NULL == [null |-> TRUE]

(***************************************************************************)
(* Fixed-point arithmetic standing for the program's doubles.              *)
(***************************************************************************)
PS == 100
KS == 8000

Abs(a) == IF a < 0 THEN -a ELSE a
Sgn(a) == IF a < 0 THEN -1 ELSE IF a > 0 THEN 1 ELSE 0
Min2(a, b) == IF a < b THEN a ELSE b
Max2(a, b) == IF a > b THEN a ELSE b

\* a / b rounded to the nearest integer (b > 0), halves away from zero
RoundDiv(a, b) == Sgn(a) * ((2 * Abs(a) + b) \div (2 * b))

\* a * b / c rounded to the nearest integer, for a, b >= 0 and c > 0, without
\* forming a product beyond 2^31; operands too large for that lose low bits
RECURSIVE MulDivNat(_, _, _)
MulDivNat(a, b, c) ==
  IF b <= 2000000000 \div c
  THEN (a \div c) * b + ((a % c) * b + c \div 2) \div c
  ELSE MulDivNat(a, b \div 16, Max2(c \div 16, 1))

\* a * b / c for signed a and b, c > 0
MulDiv(a, b, c) == Sgn(a) * Sgn(b) * MulDivNat(Abs(a), Abs(b), c)

\* floor(sqrt(n)) for 0 <= n < 2^31
RECURSIVE SqrtSearch(_, _, _)
SqrtSearch(n, lo, hi) ==
  IF hi - lo <= 1 THEN lo
  ELSE IF ((lo + hi) \div 2) * ((lo + hi) \div 2) <= n
       THEN SqrtSearch(n, (lo + hi) \div 2, hi)
       ELSE SqrtSearch(n, lo, (lo + hi) \div 2)

ISqrt(n) == SqrtSearch(n, 0, 46341)

\* Math.sqrt(dx*dx + dy*dy)
RECURSIVE Dist(_, _)
Dist(dx, dy) ==
  IF Abs(dx) <= 30000 /\ Abs(dy) <= 30000
  THEN ISqrt(dx * dx + dy * dy)
  ELSE 16 * Dist(Sgn(dx) * (Abs(dx) \div 16), Sgn(dy) * (Abs(dy) \div 16))

\* dx*dx + dy*dy < r*r
HypotLess(dx, dy, r) ==
  /\ Abs(dx) < r
  /\ Abs(dy) < r
  /\ IF r <= 30000
     THEN dx * dx + dy * dy < r * r
     ELSE Dist(dx, dy) < r

RECURSIVE SelectSeqBy(_, _)
\* Array.prototype.filter with the predicate given as the set of kept elements
SelectSeqBy(s, keep) ==
  IF s = << >> THEN << >>
  ELSE IF Head(s) \in keep THEN << Head(s) >> \o SelectSeqBy(Tail(s), keep)
       ELSE SelectSeqBy(Tail(s), keep)

Range(s) == { s[i] : i \in DOMAIN s }
Ids(ns) == { ns[i].id : i \in DOMAIN ns }

(***************************************************************************)
(* Simulation and camera constants.                                        *)
(***************************************************************************)
REPULSION_STRENGTH == -150
LINK_STRENGTH_PCT == 6          \* LINK_STRENGTH = 0.06
LINK_DISTANCE == 70
CENTER_STRENGTH_PCT == 1        \* CENTER_STRENGTH = 0.01
DAMPING_PCT == 90               \* DAMPING = 0.9
ENERGY_THRESHOLD_E4 == 50       \* ENERGY_THRESHOLD = 0.005, in 1/(PS*PS)
KMin == 1600                    \* 0.2 * KS
KMax == 40000                   \* 5 * KS
MaxFitScale == 12000            \* 1.5 * KS
ClickThreshold == 3
HitMargin == 5
BlendPct == 8                   \* t = 0.08
Identity == [k |-> KS, x |-> 0, y |-> 0]

(***************************************************************************)
(* Node ids.  The program inspects an id's text twice: startsWith          *)
(* ('subject-') and the integer formed by its digits.  IdInfo gives both   *)
(* for every id of the model's universe (digits = 0 when the id has none). *)
(***************************************************************************)
IdInfo(id) ==
  CASE id = "subject-a"     -> [subjectPrefix |-> TRUE,  digits |-> 0]
    [] id = "subject-b"     -> [subjectPrefix |-> TRUE,  digits |-> 0]
    [] id = "subject-ghost" -> [subjectPrefix |-> TRUE,  digits |-> 0]
    [] id = "topic-a-t1"    -> [subjectPrefix |-> FALSE, digits |-> 1]
    [] id = "ghost"         -> [subjectPrefix |-> FALSE, digits |-> 0]
    [] id = "q1"            -> [subjectPrefix |-> FALSE, digits |-> 1]
    [] id = "q2"            -> [subjectPrefix |-> FALSE, digits |-> 2]
    [] id = "q3"            -> [subjectPrefix |-> FALSE, digits |-> 3]

NoScore == -1                   \* masteryScore === undefined
Coalesce(v, d) == IF v = NoScore THEN d ELSE v

MkNode(id, type, radius, score, rev) ==
  [id |-> id, type |-> type, radius |-> radius, masteryScore |-> score, rev |-> rev]
MkLink(s, t) == [source |-> s, target |-> t]

(***************************************************************************)
(* Memos of useForceGraph.                                                 *)
(***************************************************************************)
\* pMap.set(link.target, link.source) for every link, in order
ParentMapOf(ns, ls) ==
  IF Len(ns) = 0 THEN << >>
  ELSE [t \in { ls[i].target : i \in DOMAIN ls } |->
          LET last == CHOOSE i \in DOMAIN ls :
                        /\ ls[i].target = t
                        /\ \A j \in DOMAIN ls : ls[j].target = t => j <= i
          IN ls[last].source]

RECURSIVE ChildrenOf(_, _)
ChildrenOf(id, ls) ==
  IF ls = << >> THEN << >>
  ELSE IF Head(ls).source = id THEN << Head(ls).target >> \o ChildrenOf(id, Tail(ls))
       ELSE ChildrenOf(id, Tail(ls))

\* cMap.get(link.source)?.push(link.target) for every link, in order
ChildrenMapOf(ns, ls) ==
  IF Len(ns) = 0 THEN << >>
  ELSE [id \in Ids(ns) |-> ChildrenOf(id, ls)]

MapGet(m, key, dflt) == IF key \in DOMAIN m THEN m[key] ELSE dflt

\* the ids the breadth-first queue visits (the link set is a forest)
RECURSIVE Descend(_, _, _)
Descend(frontier, seen, cMap) ==
  IF frontier = {} THEN seen
  ELSE LET next == UNION { Range(MapGet(cMap, id, << >>)) : id \in frontier }
       IN Descend(next \ (seen \cup frontier), seen \cup frontier, cMap)

\* the designated node and its children only
AllDescendantsShallow(w, cMap) == {w.id} \cup Range(MapGet(cMap, w.id, << >>))

AllDescendants(w, cMap) == Descend({w.id}, {}, cMap)

RECURSIVE InsertBeforeEqual(_, _)
\* an insertion that places n before the elements of equal score
InsertBeforeEqual(sorted, n) ==
  IF sorted = << >> THEN << n >>
  ELSE IF Coalesce(Head(sorted).masteryScore, 0) < Coalesce(n.masteryScore, 0)
       THEN << Head(sorted) >> \o InsertBeforeEqual(Tail(sorted), n)
       ELSE << n >> \o sorted

RECURSIVE InsertByMastery(_, _)
\* n placed after every element whose score is not greater than its own
InsertByMastery(sorted, n) ==
  IF sorted = << >> THEN << n >>
  ELSE IF Coalesce(Head(sorted).masteryScore, 0) <= Coalesce(n.masteryScore, 0)
       THEN << Head(sorted) >> \o InsertByMastery(Tail(sorted), n)
       ELSE << n >> \o sorted

RECURSIVE SortFrom(_, _)
SortFrom(sorted, rest) ==
  IF rest = << >> THEN sorted
  ELSE SortFrom(InsertByMastery(sorted, Head(rest)), Tail(rest))

\* questionsOnPath.sort((a, b) => (a.masteryScore ?? 0) - (b.masteryScore ?? 0)),
\* a stable sort
SortByMastery(qs) == SortFrom(<< >>, qs)

QuestionsOnPath(w, ns, cMap) ==
  LET desc == AllDescendants(w, cMap)
  IN SelectSeqBy(ns, { n \in Range(ns) : n.type = "question" /\ n.id \in desc })

WeakestPathNodesOf(w, ns, cMap) ==
  IF w = NULL THEN << >> ELSE SortByMastery(QuestionsOnPath(w, ns, cMap))

WeakestPathLinksOf(sorted) ==
  [i \in 1..(IF Len(sorted) = 0 THEN 0 ELSE Len(sorted) - 1) |->
     MkLink(sorted[i].id, sorted[i + 1].id)]

PathNodeIdsOf(w, sorted, cMap) ==
  IF w = NULL THEN {}
  ELSE Ids(sorted) \cup {w.id}
       \cup (IF w.type = "subject" THEN Range(MapGet(cMap, w.id, << >>)) ELSE {})

(***************************************************************************)
(* Position Store.                                                         *)
(***************************************************************************)
\* Math.random() as a percentage; the values the model draws
RandomPct == {0, 50}
\* the two draws of a fresh position or of a perturbation
RandomPair == [rx : randomValues, ry : randomValues]

NewIds(pos, ns) == Ids(ns) \ DOMAIN pos

\* a fresh entry that starts with a velocity
FreshPositionMoving(d, r) ==
  [x |-> (d.width * PS) \div 2 + (r.rx - 50) * PS,
   y |-> (d.height * PS) \div 2 + (r.ry - 50) * PS,
   vx |-> ((r.rx - 50) * PS) \div 100, vy |-> ((r.ry - 50) * PS) \div 100]

FreshPosition(d, r) ==
  [x |-> (d.width * PS) \div 2 + (r.rx - 50) * PS,
   y |-> (d.height * PS) \div 2 + (r.ry - 50) * PS,
   vx |-> 0, vy |-> 0]

\* a reconcile that starts from the old store instead of an empty one
ReconcileKeepingStale(pos, ns, d, rnd) ==
  [id \in Ids(ns) \cup DOMAIN pos |->
     IF id \in DOMAIN pos THEN pos[id] ELSE FreshPosition(d, rnd[id])]

\* the position reconcile effect; rnd gives the random draws of the new ids
Reconcile(pos, ns, d, rnd) ==
  [id \in Ids(ns) |-> IF id \in DOMAIN pos THEN pos[id] ELSE FreshPosition(d, rnd[id])]

\* the perturbation of the mode-switch effect: vx += Math.random() - 0.5
PerturbShifting(pos, rnd) ==
  [id \in DOMAIN pos |->
     [pos[id] EXCEPT !.x = @ + ((rnd[id].rx - 50) * PS) \div 100,
                     !.y = @ + ((rnd[id].ry - 50) * PS) \div 100]]

Perturb(pos, rnd) ==
  [id \in DOMAIN pos |->
     [pos[id] EXCEPT !.vx = @ + ((rnd[id].rx - 50) * PS) \div 100,
                     !.vy = @ + ((rnd[id].ry - 50) * PS) \div 100]]

(***************************************************************************)
(* Camera.                                                                 *)
(***************************************************************************)
\* a number that is NaN: a value no length or scale of the model takes; the
\* camera arithmetic passes it on, as the program's arithmetic does
NaN == -2000000000

Clamp(k) == Max2(KMin, Min2(KMax, k))

\* a * (1 - t) + b * t with t = 0.08
Blend(a, b) ==
  IF a = NaN \/ b = NaN THEN NaN
  ELSE RoundDiv(a * (100 - BlendPct) + b * BlendPct, 100)

\* Math.abs(a - b) < eps, which is false when a or b is NaN
Near(a, b, eps) == a # NaN /\ b # NaN /\ Abs(a - b) < eps

\* next: the interpolated transform; it snaps to the target within epsilon
SnapOrKeep(next, tg) ==
  IF /\ Near(next.x, tg.x, PS \div 10)
     /\ Near(next.y, tg.y, PS \div 10)
     /\ Near(next.k, tg.k, KS \div 1000)
  THEN [transform |-> tg, target |-> NULL]
  ELSE [transform |-> next, target |-> tg]

\* the camera interpolation at the head of loop
CameraStep(tf, tg) ==
  IF tg = NULL THEN [transform |-> tf, target |-> tg]
  ELSE SnapOrKeep([k |-> Blend(tf.k, tg.k), x |-> Blend(tf.x, tg.x),
                   y |-> Blend(tf.y, tg.y)], tg)

RECURSIVE SeqMin(_)
SeqMin(s) == IF Len(s) = 1 THEN s[1] ELSE Min2(Head(s), SeqMin(Tail(s)))
RECURSIVE SeqMax(_)
SeqMax(s) == IF Len(s) = 1 THEN s[1] ELSE Max2(Head(s), SeqMax(Tail(s)))

RECURSIVE Truthy(_)
\* .filter(Boolean) of a list of numbers: zeros are dropped
Truthy(s) ==
  IF s = << >> THEN << >>
  ELSE IF Head(s) = 0 THEN Truthy(Tail(s)) ELSE << Head(s) >> \o Truthy(Tail(s))

\* nodesToFrame.map(n => nodePositions.current[n.id]?.x || 0)
CoordsOf(frame, pos, axis) ==
  [i \in DOMAIN frame |->
     IF frame[i].id \in DOMAIN pos
     THEN (IF axis = "x" THEN pos[frame[i].id].x ELSE pos[frame[i].id].y)
     ELSE 0]

\* the target for a bounding box and the scale newScale
CenterOn(minX, maxX, minY, maxY, newScale, d) ==
  [k |-> newScale,
   x |-> (d.width * PS) \div 2 - MulDiv(minX + maxX, newScale, 2 * KS),
   y |-> (d.height * PS) \div 2 - MulDiv(minY + maxY, newScale, 2 * KS)]

FitBox(minX, maxX, minY, maxY, d) ==
  CenterOn(minX, maxX, minY, maxY,
           Min2(Min2(MulDiv(d.width * PS, KS, (maxX - minX) + 100 * PS),
                     MulDiv(d.height * PS, KS, (maxY - minY) + 100 * PS)),
                MaxFitScale),
           d)

\* the target resetView computes from a non-empty list of x and of y values
FitTarget(xs, ys, d) == FitBox(SeqMin(xs), SeqMax(xs), SeqMin(ys), SeqMax(ys), d)

\* resetView once the lists xs and ys are formed; after: isStable after a fit
FrameCoords(frame, xs, ys, d, stable, after) ==
  IF Len(frame) = 0 \/ Len(xs) = 0
  THEN [target |-> Identity, isStable |-> stable]
  ELSE IF Len(ys) = 0
       \* Math.min() of no value is Infinity: the scale is -0, y is NaN
       THEN [target |-> [k |-> 0, x |-> (d.width * PS) \div 2, y |-> NaN],
             isStable |-> after]
       ELSE [target |-> FitTarget(xs, ys, d), isStable |-> after]

FrameNodes(frame, d, pos, stable, after) ==
  FrameCoords(frame, Truthy(CoordsOf(frame, pos, "x")), Truthy(CoordsOf(frame, pos, "y")),
              d, stable, after)

\* resetView: the target it sets and the value it leaves in isStable
resetView(ns, d, m, w, pIds, pos, stable) ==
  IF Len(ns) = 0 \/ d.width = 0 THEN [target |-> Identity, isStable |-> stable]
  ELSE IF m = "graph" \/ w # NULL
       THEN FrameNodes(IF w # NULL
                       THEN SelectSeqBy(ns, { n \in Range(ns) : n.id \in pIds })
                       ELSE ns,
                       d, pos, stable,
                       IF m = "graph" /\ w = NULL THEN FALSE ELSE stable)
       ELSE [target |-> Identity, isStable |-> stable]

\* the transform with scale newScale that keeps the screen point (ax, ay) over
\* the same model point: k = newScale / tf.k, x = ax - (ax - tf.x) * k
ScaleAbout(tf, ax, ay, newScale) ==
  [k |-> newScale,
   x |-> IF tf.x = NaN THEN NaN ELSE ax - MulDiv(ax - tf.x, newScale, tf.k),
   y |-> IF tf.y = NaN THEN NaN ELSE ay - MulDiv(ay - tf.y, newScale, tf.k)]

\* zoom(factor) with factor = num / den: the target it sets
zoom(tf, d, num, den) ==
  ScaleAbout(tf, (d.width * PS) \div 2, (d.height * PS) \div 2,
             Clamp(RoundDiv(tf.k * num, den)))

\* the scale handleWheel computes: factor = 1 - deltaY * 0.001
WheelScale(k, deltaY) == Clamp(RoundDiv(k * (1000 - deltaY), 1000))

\* a wheel zoom that moves the translation by the factor asked for, clamped or not
WheelTransformByFactor(tf, p, deltaY) ==
  [k |-> WheelScale(tf.k, deltaY),
   x |-> p.x * PS - MulDiv(p.x * PS - tf.x, 1000 - deltaY, 1000),
   y |-> p.y * PS - MulDiv(p.y * PS - tf.y, 1000 - deltaY, 1000)]

\* the transform handleWheel leaves, for a wheel event at client point p
WheelTransform(tf, p, deltaY) ==
  ScaleAbout(tf, p.x * PS, p.y * PS, WheelScale(tf.k, deltaY))

(***************************************************************************)
(* Hit-testing.                                                            *)
(***************************************************************************)
\* getMousePos(e) with useTransform: the model-space point under client point p
getMousePos(p, tf) ==
  [x |-> MulDiv(p.x * PS - tf.x, KS, tf.k),
   y |-> MulDiv(p.y * PS - tf.y, KS, tf.k)]

scaledHitRadius(radius, tf) == RoundDiv((radius + HitMargin) * PS * KS, tf.k)

Hits(n, q, tf, pos) ==
  /\ n.id \in DOMAIN pos
  /\ HypotLess(q.x - pos[n.id].x, q.y - pos[n.id].y, scaledHitRadius(n.radius, tf))

\* findNodeAtPos over the node list ns the calling handler closes over
LastOf(ns, hit) ==
  IF hit = {} THEN NULL ELSE ns[CHOOSE i \in hit : \A j \in hit : j <= i]

findNodeAtPos(ns, q, tf, pos) ==
  LastOf(ns, { i \in DOMAIN ns : Hits(ns[i], q, tf, pos) })

(***************************************************************************)
(* Simulation Engine: force-directed mode.                                 *)
(***************************************************************************)
\* the distance as it is, zero included
DistUnclamped(dx, dy) == Dist(dx, dy)

\* Math.sqrt(dx*dx + dy*dy) || 1
DistOr1(dx, dy) == IF Dist(dx, dy) = 0 THEN PS ELSE Dist(dx, dy)

\* |REPULSION_STRENGTH / (distance * distance)| in 1/(1000 * PS) per tick
RepulsionMilli(d) ==
  IF d >= PS
  THEN ((((-REPULSION_STRENGTH) * 10000000) \div d) * 100) \div d
  ELSE IF d * d >= 150
       THEN (((-REPULSION_STRENGTH) * 10000000) \div (d * d)) * 100
       \* closer than an eighth of a unit: the largest force the model's integers hold
       ELSE 1000000000

VAdd(u, v) == [vx |-> u.vx + v.vx, vy |-> u.vy + v.vy]

\* (dx / distance) * force and (dy / distance) * force, force being negative
RepulsionAlong(dx, dy, d, f) ==
  [vx |-> -Sgn(dx) * RoundDiv(MulDivNat(f, Abs(dx), d), 1000),
   vy |-> -Sgn(dy) * RoundDiv(MulDivNat(f, Abs(dy), d), 1000)]

RepulsionAt(dx, dy, d) == RepulsionAlong(dx, dy, d, RepulsionMilli(d))

\* what nodeB adds to posA.vx and posA.vy
RepulsionOn(pa, pb) ==
  RepulsionAt(pb.x - pa.x, pb.y - pa.y, DistOr1(pb.x - pa.x, pb.y - pa.y))

RECURSIVE RepulsionSum(_, _, _)
RepulsionSum(a, ns, pos) ==
  IF ns = << >> THEN [vx |-> 0, vy |-> 0]
  ELSE IF Head(ns).id = a \/ Head(ns).id \notin DOMAIN pos
       THEN RepulsionSum(a, Tail(ns), pos)
       ELSE VAdd(RepulsionSum(a, Tail(ns), pos), RepulsionOn(pos[a], pos[Head(ns).id]))

\* (dimensions / 2 - pos) * CENTER_STRENGTH
CenterPull(p, d) ==
  [vx |-> RoundDiv(((d.width * PS) \div 2 - p.x) * CENTER_STRENGTH_PCT, 100),
   vy |-> RoundDiv(((d.height * PS) \div 2 - p.y) * CENTER_STRENGTH_PCT, 100)]

Push(pos, a, dv) == [pos EXCEPT ![a].vx = @ + dv.vx, ![a].vy = @ + dv.vy]
Pull(pos, a, dv) == [pos EXCEPT ![a].vx = @ - dv.vx, ![a].vy = @ - dv.vy]

\* the first loop of runGraphSimulation: center pull and pairwise repulsion
RECURSIVE CenterAndRepel(_, _, _, _)
CenterAndRepel(todo, ns, d, pos) ==
  IF todo = << >> THEN pos
  ELSE IF Head(todo).id \notin DOMAIN pos THEN CenterAndRepel(Tail(todo), ns, d, pos)
       ELSE CenterAndRepel(Tail(todo), ns, d,
              Push(pos, Head(todo).id,
                   VAdd(CenterPull(pos[Head(todo).id], d),
                        RepulsionSum(Head(todo).id, ns, pos))))

\* (dx / distance) * force and (dy / distance) * force
SpringAlong(dx, dy, dist, force) ==
  [vx |-> MulDiv(force, dx, dist), vy |-> MulDiv(force, dy, dist)]

\* force = (distance - LINK_DISTANCE) * LINK_STRENGTH
SpringAt(dx, dy, dist) ==
  SpringAlong(dx, dy, dist, RoundDiv((dist - LINK_DISTANCE * PS) * LINK_STRENGTH_PCT, 100))

SpringOn(ps, pt) == SpringAt(pt.x - ps.x, pt.y - ps.y, DistOr1(pt.x - ps.x, pt.y - ps.y))

\* the second loop: one spring per link whose two ends have a position
RECURSIVE LinkSprings(_, _)
LinkSprings(ls, pos) ==
  IF ls = << >> THEN pos
  ELSE IF Head(ls).source \notin DOMAIN pos \/ Head(ls).target \notin DOMAIN pos
       THEN LinkSprings(Tail(ls), pos)
       ELSE LinkSprings(Tail(ls),
              Pull(Push(pos, Head(ls).source,
                        SpringOn(pos[Head(ls).source], pos[Head(ls).target])),
                   Head(ls).target,
                   SpringOn(pos[Head(ls).source], pos[Head(ls).target])))

Damp(v) == RoundDiv(v * DAMPING_PCT, 100)

\* pos.x += pos.vx for the damped velocity (vx, vy)
Advance(p, vx, vy) == [x |-> p.x + vx, y |-> p.y + vy, vx |-> vx, vy |-> vy]
Damped(p) == Advance(p, Damp(p.vx), Damp(p.vy))
Place(pos, a, p) == [pos EXCEPT ![a] = p]
\* pos.vx * pos.vx + pos.vy * pos.vy, which only its comparison with the
\* threshold reads: past 100 units per tick the model keeps a large value
Kinetic(p) ==
  IF Abs(p.vx) > 100 * PS \/ Abs(p.vy) > 100 * PS THEN 200000000
  ELSE p.vx * p.vx + p.vy * p.vy

IsDragged(dragged, id) == dragged # NULL /\ dragged.id = id

\* the third loop: damping and integration of every node but the dragged one
RECURSIVE Integrate(_, _, _, _)
Integrate(todo, pos, dragged, energy) ==
  IF todo = << >> THEN [pos |-> pos, totalEnergy |-> energy]
  ELSE IF Head(todo).id \notin DOMAIN pos \/ IsDragged(dragged, Head(todo).id)
       THEN Integrate(Tail(todo), pos, dragged, energy)
       ELSE Integrate(Tail(todo), Place(pos, Head(todo).id, Damped(pos[Head(todo).id])),
                      dragged, energy + Kinetic(Damped(pos[Head(todo).id])))

\* the end of runGraphSimulation
Settle(done, stable, dragged) ==
  [pos |-> done.pos,
   isStable |-> IF dragged = NULL /\ done.totalEnergy < ENERGY_THRESHOLD_E4
                THEN TRUE ELSE stable]

runGraphSimulation(ns, ls, d, pos, stable, dragged) ==
  IF stable /\ dragged = NULL THEN [pos |-> pos, isStable |-> stable]
  ELSE Settle(Integrate(ns, LinkSprings(ls, CenterAndRepel(ns, ns, d, pos)), dragged, 0),
              stable, dragged)

(***************************************************************************)
(* Simulation Engine: orbit mode.                                          *)
(***************************************************************************)
\* Math.cos and Math.sin of an angle in milliradians, times 1000, for the angles
\* the orbit layout forms from the model's ids and random draws
Cos1000(a) ==
  CASE a = -200 -> 980
    [] a = -137 -> 991
    [] a = -100 -> 995
    [] a = -74 -> 997
    [] a = -37 -> 999
    [] a = -12 -> 1000
    [] a = 0 -> 1000
    [] a = 26 -> 1000
    [] a = 63 -> 998
    [] a = 88 -> 996
    [] a = 126 -> 992
    [] a = 188 -> 982
    [] a = 1894 -> -318
    [] a = 1994 -> -411
    [] a = 2094 -> -500
    [] a = 2942 -> -980
    [] a = 3042 -> -995
    [] a = 3142 -> -1000
    [] a = 3989 -> -662
    [] a = 4089 -> -584
    [] a = 4189 -> -500

Sin1000(a) ==
  CASE a = -200 -> -199
    [] a = -137 -> -137
    [] a = -100 -> -100
    [] a = -74 -> -74
    [] a = -37 -> -37
    [] a = -12 -> -12
    [] a = 0 -> 0
    [] a = 26 -> 26
    [] a = 63 -> 63
    [] a = 88 -> 88
    [] a = 126 -> 126
    [] a = 188 -> 187
    [] a = 1894 -> 948
    [] a = 1994 -> 912
    [] a = 2094 -> 866
    [] a = 2942 -> 198
    [] a = 3042 -> 99
    [] a = 3142 -> 0
    [] a = 3989 -> -750
    [] a = 4089 -> -812
    [] a = 4189 -> -866

TwoPi == 6283

\* subjectAngles: the angle of the subject with the given id (the last of equal ids)
AngleOfLast(at, count) ==
  IF at = {} THEN 0
  ELSE RoundDiv(((CHOOSE i \in at : \A j \in at : j <= i) - 1) * TwoPi, count)

AngleAmong(subjects, id) ==
  AngleOfLast({ i \in DOMAIN subjects : subjects[i].id = id }, Len(subjects))

SubjectAngle(ns, id) ==
  AngleAmong(SelectSeqBy(ns, { n \in Range(ns) : n.type = "subject" }), id)

Undefined == "undefined"

RECURSIVE RootFrom(_, _, _)
RootFrom(currentId, pMap, i) ==
  IF i = 0 THEN Undefined
  ELSE IF IdInfo(currentId).subjectPrefix THEN currentId
       ELSE IF currentId \notin DOMAIN pMap THEN Undefined
            ELSE RootFrom(pMap[currentId], pMap, i - 1)

getRootSubjectId(nodeId, pMap) == RootFrom(nodeId, pMap, 5)

\* baseAngle of a node
\* subjectAngles.get(root) ?? 0, or, without a root,
\* (parseInt(node.id.replace(/[^0-9]/g, ''), 10) || 1) / 100 * Math.PI * 2
AngleOfRoot(root, n, ns) ==
  IF root # Undefined THEN SubjectAngle(ns, root)
  ELSE RoundDiv((IF IdInfo(n.id).digits = 0 THEN 1 ELSE IdInfo(n.id).digits) * TwoPi, 100)

\* baseAngle of a node
BaseAngle(n, ns, pMap) == AngleOfRoot(getRootSubjectId(n.id, pMap), n, ns)

\* (Math.random() - 0.5) * 0.4 for a question, * 0.2 for any other node
Jitter(n, r) == IF n.type = "question" THEN (r - 50) * 4 ELSE (r - 50) * 2

\* a radius that grows with mastery: radiusX * (mastery / 105)
OrbitPointGrowing(d, angle, mastery) ==
  [x |-> (d.width * PS) \div 2
           + MulDiv(((d.width * PS * 9) \div 20) * mastery, Cos1000(angle), 105000),
   y |-> (d.height * PS) \div 2
           + MulDiv(((d.height * PS * 9) \div 20) * mastery, Sin1000(angle), 105000)]

\* radius = radiusX * (1 - mastery / 105), with radiusX = width * 0.45
OrbitPoint(d, angle, mastery) ==
  [x |-> (d.width * PS) \div 2
           + MulDiv(((d.width * PS * 9) \div 20) * (105 - mastery), Cos1000(angle), 105000),
   y |-> (d.height * PS) \div 2
           + MulDiv(((d.height * PS * 9) \div 20) * (105 - mastery), Sin1000(angle), 105000)]

OrbitTarget(n, ns, d, pMap, r) ==
  OrbitPoint(d, BaseAngle(n, ns, pMap) + Jitter(n, r), Coalesce(n.masteryScore, 50))

\* pos.vx = (target - pos.x) * rate; pos.x += pos.vx
Seek(p, target, ratePct) ==
  Advance(p, RoundDiv((target.x - p.x) * ratePct, 100),
             RoundDiv((target.y - p.y) * ratePct, 100))

OrbitMovers(ns, pos, dragged) ==
  { id \in Ids(ns) \cap DOMAIN pos : ~IsDragged(dragged, id) }

\* the loop body for node n, which moved leaves at pos[n.id]
OrbitMove(pos, n, moved, energy) ==
  [pos |-> Place(pos, n.id, moved), totalEnergy |-> energy + Abs(moved.vx) + Abs(moved.vy)]

OrbitNode(acc, n, ns, d, pMap, r) ==
  OrbitMove(acc.pos, n, Seek(acc.pos[n.id], OrbitTarget(n, ns, d, pMap, r), 5),
            acc.totalEnergy)

RECURSIVE OrbitLoop(_, _, _, _, _, _, _)
OrbitLoop(todo, ns, d, pMap, acc, dragged, jit) ==
  IF todo = << >> THEN acc
  ELSE IF Head(todo).id \notin DOMAIN acc.pos \/ IsDragged(dragged, Head(todo).id)
       THEN OrbitLoop(Tail(todo), ns, d, pMap, acc, dragged, jit)
       ELSE OrbitLoop(Tail(todo), ns, d, pMap,
                      OrbitNode(acc, Head(todo), ns, d, pMap, jit[Head(todo).id]),
                      dragged, jit)

\* jit: the random draw of every node that moves
runOrbitLayout(ns, d, pMap, pos, dragged, jit) ==
  OrbitLoop(ns, ns, d, pMap, [pos |-> pos, totalEnergy |-> 0], dragged, jit)

(***************************************************************************)
(* Simulation Engine: focus-path mode.                                     *)
(***************************************************************************)
nodesPerRow(d) == (d.width * 8) \div 1200

\* the grid cell of the path leaf with zero-based index i, of count leaves
GridCell(row, col, npr, count, d) ==
  [x |-> (d.width * PS) \div 2 + (2 * col - (npr - 1)) * 60 * PS,
   y |-> (d.height * PS) \div 2 + row * 100 * PS
           - RoundDiv(count * 50 * PS, npr) + 50 * PS]

SerpentinePosition(i, count, d) ==
  GridCell(i \div nodesPerRow(d), i % nodesPerRow(d), nodesPerRow(d), count, d)

PathIndex(sorted, id) == CHOOSE i \in DOMAIN sorted : sorted[i].id = id

\* the focus-path branch of loop
FocusPathStep(ns, d, sorted, pos) ==
  [id \in DOMAIN pos |->
     IF id \in Ids(ns) /\ id \in Ids(sorted)
     THEN IF nodesPerRow(d) = 0 \/ pos[id].x = NaN
          THEN [x |-> NaN, y |-> NaN, vx |-> NaN, vy |-> NaN]
          ELSE Seek(pos[id], SerpentinePosition(PathIndex(sorted, id) - 1, Len(sorted), d), 10)
     ELSE pos[id]]

(***************************************************************************)
(* The frame callback.                                                     *)
(***************************************************************************)
\* the random draws one run of loop makes: one per node runOrbitLayout moves
JitterDraws ==
  IF weakestPathNode = NULL /\ layoutMode = "orbit"
  THEN [OrbitMovers(nodes, nodePositions, draggedNode) -> randomValues]
  ELSE { << >> }

\* what one run of loop leaves in the refs
Frame(cam, target, pos, stable, centered) ==
  [transform |-> cam.transform, target |-> target, pos |-> pos,
   isStable |-> stable, orbitCenteringDone |-> centered]

GraphFrame(cam, g) == Frame(cam, cam.target, g.pos, g.isStable, orbitCenteringDone)

\* the refit of lines 802-806: rv is what resetView leaves
RefitFrame(cam, pos, rv) == Frame(cam, rv.target, pos, rv.isStable, TRUE)

\* the refit also at an energy equal to the limit
OrbitFrameInclusive(cam, o) ==
  IF ~orbitCenteringDone /\ o.totalEnergy <= 5 * Len(nodes)
  THEN RefitFrame(cam, o.pos,
                  resetView(nodes, dimensions, layoutMode, weakestPathNode,
                            pathNodeIds, o.pos, isStable))
  ELSE Frame(cam, cam.target, o.pos, isStable, orbitCenteringDone)

OrbitFrame(cam, o) ==
  IF ~orbitCenteringDone /\ o.totalEnergy < 5 * Len(nodes)
  THEN RefitFrame(cam, o.pos,
                  resetView(nodes, dimensions, layoutMode, weakestPathNode,
                            pathNodeIds, o.pos, isStable))
  ELSE Frame(cam, cam.target, o.pos, isStable, orbitCenteringDone)

\* loop after its camera step cam
Layout(cam, jit) ==
  IF weakestPathNode # NULL
  THEN Frame(cam, cam.target,
             FocusPathStep(nodes, dimensions, weakestPathNodes, nodePositions),
             isStable, orbitCenteringDone)
  ELSE IF layoutMode = "graph"
       THEN GraphFrame(cam, runGraphSimulation(nodes, links, dimensions, nodePositions,
                                               isStable, draggedNode))
       ELSE OrbitFrame(cam, runOrbitLayout(nodes, dimensions, parentMap, nodePositions,
                                           draggedNode, jit))

\* one run of loop on the current state (draw does not change the state)
loop(jit) == Layout(CameraStep(transform, targetTransform), jit)

\* the refs after a run of loop that left r
Looped(r) ==
  /\ transform' = r.transform
  /\ targetTransform' = r.target
  /\ nodePositions' = r.pos
  /\ isStable' = r.isStable
  /\ orbitCenteringDone' = r.orbitCenteringDone

(***************************************************************************)
(* History of the last operation, for stating the claims.                  *)
(***************************************************************************)
InteractionState ==
  IF draggedNode # NULL /\ isPanning THEN "Both"
  ELSE IF draggedNode # NULL THEN "DraggingNode"
  ELSE IF isPanning THEN "Panning"
  ELSE "Idle"

Op(name) ==
  [op |-> name, changed |-> {}, prevIds |-> DOMAIN nodePositions,
   was |-> InteractionState, over |-> NULL, fired |-> FALSE, node |-> NULL,
   dragged |-> NULL, hover |-> FALSE, at |-> NULL, paired |-> FALSE]

\* down: a mousedown opened the gesture and no mouseup has closed it; far: the
\* pointer was 3 px or more from the mousedown position; pinnedAt: the client
\* position of the last move that pinned the dragged node
NoGesture == [down |-> FALSE, far |-> FALSE, pinnedAt |-> NULL]

\* a budget of Unbounded is never used up
Unbounded == -1
Spend(kind) ==
  /\ budget[kind] # 0
  /\ budget' = [budget EXCEPT ![kind] = IF @ = Unbounded THEN @ ELSE @ - 1]

(***************************************************************************)
(* A commit of new props: the render and the effects of lines 411-439,     *)
(* then, as the next step, the loop effect.                                *)
(***************************************************************************)
Env(ns, m, w) == [nodes |-> ns, layoutMode |-> m, weakestPathNode |-> w]

\* ch: which of "nodes", "links", "dims", "mode", "weakest", "click" changed,
\* with "resize" when the commit comes from the resize listener
Commit(ns, ls, d, m, w, ch) ==
  /\ pc = "idle"
  /\ Spend("renders")
  /\ LET cMap == ChildrenMapOf(ns, ls)
         sorted == WeakestPathNodesOf(w, ns, cMap)
         reconciles == "nodes" \in ch \/ d.width # dimensions.width
                         \/ d.height # dimensions.height
         perturbs == ({"mode", "weakest"} \cap ch # {}) /\ m = "graph" /\ w = NULL
     IN /\ nodes' = ns
        /\ links' = ls
        /\ dimensions' = d
        /\ layoutMode' = m
        /\ weakestPathNode' = w
        /\ parentMap' = ParentMapOf(ns, ls)
        /\ childrenMap' = cMap
        /\ weakestPathNodes' = sorted
        /\ weakestPathLinks' = WeakestPathLinksOf(sorted)
        /\ pathNodeIds' = PathNodeIdsOf(w, sorted, cMap)
        /\ \E fresh \in [IF reconciles THEN NewIds(nodePositions, ns) ELSE {} -> RandomPair] :
             LET merged == IF reconciles THEN Reconcile(nodePositions, ns, d, fresh)
                           ELSE nodePositions
             IN \E kick \in [IF perturbs THEN DOMAIN merged ELSE {} -> RandomPair] :
                  nodePositions' = IF perturbs THEN Perturb(merged, kick) ELSE merged
        /\ isStable' = IF perturbs THEN FALSE ELSE isStable
        /\ orbitCenteringDone' = IF "mode" \in ch /\ m = "orbit" THEN FALSE
                                 ELSE orbitCenteringDone
        /\ downEnv' = IF {"mode", "weakest"} \cap ch # {} THEN Env(ns, m, w) ELSE downEnv
        /\ upEnv' = IF {"mode", "click"} \cap ch # {} THEN Env(ns, m, w) ELSE upEnv
        /\ moveEnv' = moveEnv
        /\ lastOp' = [Op("render") EXCEPT !.changed = ch]
        /\ history' =
             IF reconciles
             THEN [history EXCEPT !.removed =
                     [id \in DOMAIN history.removed \cup (DOMAIN nodePositions \ Ids(ns)) |->
                        IF id \in DOMAIN nodePositions \ Ids(ns) THEN nodePositions[id]
                        ELSE history.removed[id]]]
             ELSE history
        /\ pc' = "loopEffect"
  /\ UNCHANGED << listView, randomValues, transform, targetTransform, dragStartPos, draggedNode,
                  isDraggingNode, isPanning, hoveredNode, rafPending, rafIdLive,
                  resetTimer, pointer, gesture >>

\* a commit that does not come from the resize listener's timer
Render(ns, ls, d, m, w, ch) ==
  /\ Commit(ns, ls, d, m, w, ch)
  /\ UNCHANGED resizeTimer

\* the loop effect of the same commit: cleanup of the previous loop, then
\* loop() at once; after it the host's resetView effect restarts its timer
LoopEffect ==
  /\ pc = "loopEffect"
  /\ pc' = "idle"
  /\ resetTimer' = TRUE
  /\ history' = [history EXCEPT !.timerCause = lastOp.changed]
  /\ lastOp' = Op("loopEffect")
  /\ IF dimensions.width = 0
     THEN /\ rafPending' = IF rafIdLive THEN rafPending - 1 ELSE rafPending
          /\ rafIdLive' = FALSE
          /\ UNCHANGED << transform, targetTransform, nodePositions, isStable,
                          orbitCenteringDone >>
     ELSE /\ rafPending' = (IF rafIdLive THEN rafPending - 1 ELSE rafPending) + 1
          /\ rafIdLive' = TRUE
          /\ \E jit \in JitterDraws : Looped(loop(jit))
  /\ UNCHANGED << listView, randomValues, resizeTimer, nodes, links, dimensions, layoutMode, weakestPathNode, parentMap,
                  childrenMap, weakestPathNodes, weakestPathLinks, pathNodeIds,
                  dragStartPos, draggedNode, isDraggingNode, isPanning, hoveredNode,
                  downEnv, moveEnv, upEnv, pointer, gesture, budget >>

\* the animation frame fires: loop runs and requests the next frame; a frame
\* that was not cancelled fires after the teardown too
Tick ==
  /\ pc \in {"idle", "unmounted"}
  /\ rafPending > 0
  /\ Spend("ticks")
  /\ rafPending' = rafPending
  /\ rafIdLive' = TRUE
  /\ lastOp' = Op("tick")
  /\ history' = [history EXCEPT !.frame = 1 - @]
  /\ \E jit \in JitterDraws : Looped(loop(jit))
  /\ UNCHANGED << listView, randomValues, resizeTimer, nodes, links, dimensions, layoutMode, weakestPathNode, parentMap,
                  childrenMap, weakestPathNodes, weakestPathLinks, pathNodeIds,
                  dragStartPos, draggedNode, isDraggingNode, isPanning, hoveredNode,
                  downEnv, moveEnv, upEnv, resetTimer, pointer, pc, gesture >>

(***************************************************************************)
(* The host (MapView): what changes the props, and its resetView timer.    *)
(***************************************************************************)
\* the question list changed: the nodes/links memo yields a new set
SetQuestions(ns, ls) ==
  Render(ns, ls, dimensions, layoutMode, weakestPathNode, {"nodes", "links"})

\* updateDimensions
SetDimensions(d) ==
  Render(nodes, links, d, layoutMode, weakestPathNode, {"dims"})

SetLayoutMode(m) ==
  /\ m # layoutMode
  /\ Render(nodes, links, dimensions, m, weakestPathNode, {"mode"})

\* setWeakestPathNode(hoveredGroupNode) or setWeakestPathNode(null)
SetWeakestPathNode(w) ==
  /\ w # weakestPathNode
  /\ w # NULL => w \in Range(nodes) /\ w.type \in {"subject", "topic"}
  /\ Render(nodes, links, dimensions, layoutMode, w, {"weakest", "click"})

\* the window's resize event: handleResize restarts the 100 ms debounce timer
WindowResize ==
  /\ pc = "idle"
  /\ Spend("inputs")
  /\ resizeTimer' = TRUE
  /\ lastOp' = Op("resize")
  /\ UNCHANGED << listView, randomValues, history, nodes, links, dimensions, layoutMode, weakestPathNode, parentMap,
                  childrenMap, weakestPathNodes, weakestPathLinks, pathNodeIds,
                  nodePositions, transform, targetTransform, isStable, orbitCenteringDone,
                  dragStartPos, draggedNode, isDraggingNode, isPanning, hoveredNode,
                  rafPending, rafIdLive, downEnv, moveEnv, upEnv, resetTimer, pointer, pc,
                  gesture >>

\* the debounce timer fires: updateDimensions measures the container (d) and
\* commits; after the teardown containerRef.current is null and it does nothing
ResizeTimerFires(d) ==
  /\ resizeTimer
  /\ resizeTimer' = FALSE
  /\ IF pc = "unmounted"
     THEN /\ lastOp' = Op("resizeTimer")
          /\ UNCHANGED << listView, randomValues, history, nodes, links, dimensions, layoutMode, weakestPathNode,
                          parentMap, childrenMap, weakestPathNodes, weakestPathLinks,
                          pathNodeIds, nodePositions, transform, targetTransform, isStable,
                          orbitCenteringDone, dragStartPos, draggedNode, isDraggingNode,
                          isPanning, hoveredNode, rafPending, rafIdLive, downEnv, moveEnv,
                          upEnv, resetTimer, pointer, pc, gesture, budget >>
     ELSE Commit(nodes, links, d, layoutMode, weakestPathNode, {"dims", "resize"})

\* MapView unmounts: the loop effect's cleanup cancels the frame it holds, the
\* resetView effect's cleanup clears its timer, the resize effect's cleanup
\* removes the listener
Unmount ==
  /\ pc = "idle"
  /\ pc' = "unmounted"
  /\ rafPending' = IF rafIdLive THEN rafPending - 1 ELSE rafPending
  /\ rafIdLive' = FALSE
  /\ resetTimer' = FALSE
  /\ lastOp' = Op("unmount")
  /\ UNCHANGED << listView, randomValues, resizeTimer, history, nodes, links, dimensions, layoutMode, weakestPathNode,
                  parentMap, childrenMap, weakestPathNodes, weakestPathLinks, pathNodeIds,
                  nodePositions, transform, targetTransform, isStable, orbitCenteringDone,
                  dragStartPos, draggedNode, isDraggingNode, isPanning, hoveredNode,
                  downEnv, moveEnv, upEnv, pointer, gesture, budget >>

ApplyResetView(name) ==
  LET rv == resetView(nodes, dimensions, layoutMode, weakestPathNode, pathNodeIds,
                      nodePositions, isStable)
  IN /\ targetTransform' = rv.target
     /\ isStable' = rv.isStable
     /\ lastOp' = Op(name)

\* the 100 ms timer of the host's resetView effect fires
ResetTimerFires ==
  /\ pc = "idle"
  /\ resetTimer
  /\ Spend("calls")
  /\ resetTimer' = FALSE
  /\ ApplyResetView("resetView")
  /\ UNCHANGED << listView, randomValues, resizeTimer, history, nodes, links, dimensions, layoutMode, weakestPathNode, parentMap,
                  childrenMap, weakestPathNodes, weakestPathLinks, pathNodeIds,
                  nodePositions, transform, orbitCenteringDone, dragStartPos,
                  draggedNode, isDraggingNode, isPanning, hoveredNode, rafPending,
                  rafIdLive, downEnv, moveEnv, upEnv, pointer, pc, gesture >>

\* the Reset View button
ResetViewButton ==
  /\ pc = "idle"
  /\ Spend("calls")
  /\ ApplyResetView("resetView")
  /\ UNCHANGED << listView, randomValues, resizeTimer, history, nodes, links, dimensions, layoutMode, weakestPathNode, parentMap,
                  childrenMap, weakestPathNodes, weakestPathLinks, pathNodeIds,
                  nodePositions, transform, orbitCenteringDone, dragStartPos,
                  draggedNode, isDraggingNode, isPanning, hoveredNode, rafPending,
                  rafIdLive, downEnv, moveEnv, upEnv, resetTimer, pointer, pc, gesture >>

ZoomCall(name, num, den) ==
  /\ pc = "idle"
  /\ Spend("calls")
  /\ targetTransform' = zoom(transform, dimensions, num, den)
  /\ lastOp' = Op(name)
  /\ UNCHANGED << listView, randomValues, resizeTimer, history, nodes, links, dimensions, layoutMode, weakestPathNode, parentMap,
                  childrenMap, weakestPathNodes, weakestPathLinks, pathNodeIds,
                  nodePositions, transform, isStable, orbitCenteringDone,
                  dragStartPos, draggedNode, isDraggingNode, isPanning, hoveredNode,
                  rafPending, rafIdLive, downEnv, moveEnv, upEnv, resetTimer, pointer,
                  pc, gesture >>

zoomIn == ZoomCall("zoomIn", 13, 10)
zoomOut == ZoomCall("zoomOut", 10, 13)

(***************************************************************************)
(* Interaction Layer: the canvas listeners.  p is the event's client       *)
(* position (the canvas sits at the client origin), inside the canvas.     *)
(***************************************************************************)
OnCanvas(p) ==
  /\ dimensions.width > 0
  /\ p.x <= dimensions.width
  /\ p.y <= dimensions.height

\* the node of the current node set under client point p
NodeUnder(p) == findNodeAtPos(nodes, getMousePos(p, transform), transform, nodePositions)

\* Math.hypot(p.x - q.x, p.y - q.y) < 3
WithinClick(p, q) ==
  (p.x - q.x) * (p.x - q.x) + (p.y - q.y) * (p.y - q.y) < ClickThreshold * ClickThreshold

handleMouseDown(p) ==
  /\ pc = "idle"
  /\ OnCanvas(p)
  /\ Spend("inputs")
  /\ LET node == findNodeAtPos(downEnv.nodes, getMousePos(p, transform), transform,
                               nodePositions)
         drags == node # NULL /\ downEnv.weakestPathNode = NULL
         pans == ~drags /\ downEnv.weakestPathNode = NULL
     IN /\ targetTransform' = NULL
        /\ dragStartPos' = p
        /\ draggedNode' = IF drags THEN node ELSE draggedNode
        /\ isDraggingNode' = IF drags THEN TRUE ELSE isDraggingNode
        /\ isStable' = IF drags /\ downEnv.layoutMode = "graph" THEN FALSE ELSE isStable
        /\ isPanning' = IF pans THEN TRUE ELSE isPanning
        /\ lastOp' = [Op("mousedown") EXCEPT !.over = NodeUnder(p)]
  /\ pointer' = p
  /\ gesture' = [NoGesture EXCEPT !.down = TRUE]
  /\ UNCHANGED << listView, randomValues, resizeTimer, history, nodes, links, dimensions, layoutMode, weakestPathNode, parentMap,
                  childrenMap, weakestPathNodes, weakestPathLinks, pathNodeIds,
                  nodePositions, transform, orbitCenteringDone, hoveredNode,
                  rafPending, rafIdLive, downEnv, moveEnv, upEnv, resetTimer, pc >>

\* the hover is reported whether or not the id changed
HoverDiffersAlways(old, new) == TRUE

\* hoveredNode.current?.id !== newHoveredNode?.id
HoverDiffers(old, new) ==
  IF old = NULL \/ new = NULL THEN old # new ELSE old.id # new.id

handleMouseMove(p) ==
  /\ pc = "idle"
  /\ OnCanvas(p)
  /\ Spend("inputs")
  /\ pointer' = p
  /\ IF draggedNode # NULL
     THEN LET q == getMousePos(p, transform)
              id == draggedNode.id
          IN /\ nodePositions' =
                  IF id \in DOMAIN nodePositions
                  THEN [nodePositions EXCEPT ![id] = [x |-> q.x, y |-> q.y, vx |-> 0, vy |-> 0]]
                  ELSE nodePositions
             /\ lastOp' = Op("drag")
             /\ gesture' = [gesture EXCEPT
                              !.far = @ \/ ~WithinClick(p, dragStartPos),
                              !.pinnedAt = IF id \in DOMAIN nodePositions THEN p ELSE @]
             /\ UNCHANGED << transform, hoveredNode >>
     ELSE IF isPanning
     THEN /\ transform' = [transform EXCEPT
                             !.x = @ + (IF pointer = NULL THEN 0 ELSE (p.x - pointer.x) * PS),
                             !.y = @ + (IF pointer = NULL THEN 0 ELSE (p.y - pointer.y) * PS)]
          /\ lastOp' = Op("pan")
          /\ gesture' = [gesture EXCEPT !.far = @ \/ ~WithinClick(p, dragStartPos)]
          /\ UNCHANGED << nodePositions, hoveredNode >>
     ELSE LET newHoveredNode == findNodeAtPos(moveEnv.nodes, getMousePos(p, transform),
                                              transform, nodePositions)
              differs == HoverDiffers(hoveredNode, newHoveredNode)
          IN /\ hoveredNode' = IF differs THEN newHoveredNode ELSE hoveredNode
             /\ lastOp' = [Op("hover") EXCEPT !.hover = differs, !.node = newHoveredNode]
             /\ gesture' = [gesture EXCEPT !.far = @ \/ ~WithinClick(p, dragStartPos)]
             /\ UNCHANGED << nodePositions, transform >>
  /\ UNCHANGED << listView, randomValues, resizeTimer, history, nodes, links, dimensions, layoutMode, weakestPathNode, parentMap,
                  childrenMap, weakestPathNodes, weakestPathLinks, pathNodeIds,
                  targetTransform, isStable, orbitCenteringDone, dragStartPos,
                  draggedNode, isDraggingNode, isPanning, rafPending, rafIdLive,
                  downEnv, moveEnv, upEnv, resetTimer, pc >>

handleMouseUp(p) ==
  /\ pc = "idle"
  /\ OnCanvas(p)
  /\ Spend("inputs")
  /\ pointer' = p
  /\ LET stopped == IF draggedNode # NULL /\ draggedNode.id \in DOMAIN nodePositions
                    THEN [nodePositions EXCEPT ![draggedNode.id].vx = 0,
                                               ![draggedNode.id].vy = 0]
                    ELSE nodePositions
         clicks == WithinClick(p, dragStartPos)
         node == findNodeAtPos(upEnv.nodes, getMousePos(p, transform), transform, stopped)
     IN /\ nodePositions' = stopped
        /\ lastOp' = [Op("mouseup") EXCEPT !.fired = clicks,
                                           !.node = IF clicks THEN node ELSE NULL,
                                           !.over = NodeUnder(p),
                                           !.dragged = draggedNode,
                                           !.paired = gesture.down]
  /\ draggedNode' = NULL
  /\ isDraggingNode' = FALSE
  /\ isPanning' = FALSE
  /\ gesture' = [gesture EXCEPT !.far = @ \/ ~WithinClick(p, dragStartPos),
                                 !.down = FALSE]
  /\ UNCHANGED << listView, randomValues, resizeTimer, history, nodes, links, dimensions, layoutMode, weakestPathNode, parentMap,
                  childrenMap, weakestPathNodes, weakestPathLinks, pathNodeIds,
                  transform, targetTransform, isStable, orbitCenteringDone,
                  dragStartPos, hoveredNode, rafPending, rafIdLive, downEnv, moveEnv,
                  upEnv, resetTimer, pc >>

handleWheel(p, deltaY) ==
  /\ pc = "idle"
  /\ OnCanvas(p)
  /\ Spend("inputs")
  /\ targetTransform' = NULL
  /\ transform' = WheelTransform(transform, p, deltaY)
  /\ lastOp' = [Op("wheel") EXCEPT !.at = p]
  /\ UNCHANGED << listView, randomValues, resizeTimer, history, nodes, links, dimensions, layoutMode, weakestPathNode, parentMap,
                  childrenMap, weakestPathNodes, weakestPathLinks, pathNodeIds,
                  nodePositions, isStable, orbitCenteringDone, dragStartPos,
                  draggedNode, isDraggingNode, isPanning, hoveredNode, rafPending,
                  rafIdLive, downEnv, moveEnv, upEnv, resetTimer, pointer, pc, gesture >>

(***************************************************************************)
(* Inputs of the model: nodes as MapView builds them, viewports, points.   *)
(***************************************************************************)
SubjectA == MkNode("subject-a", "subject", 14, 50, 0)
SubjectB == MkNode("subject-b", "subject", 14, 50, 0)
TopicA1 == MkNode("topic-a-t1", "topic", 10, 50, 0)
Q1 == MkNode("q1", "question", 5, 80, 0)
Q2 == MkNode("q2", "question", 5, 20, 0)
Q3 == MkNode("q3", "question", 5, 50, 0)
\* q3 with the score of q1
Q3Tied == MkNode("q3", "question", 5, 80, 0)
\* q1 after its question was answered: same id, new payload
Q1Answered == MkNode("q1", "question", 5, 90, 1)

Viewport == [width |-> 400, height |-> 300]
NoViewport == [width |-> 0, height |-> 0]

Pt(x, y) == [x |-> x, y |-> y]

(***************************************************************************)
(* The state after the first render and its effects: MapView starts with   *)
(* dimensions 0 x 0, mode 'graph' and no focus path, so the reconcile      *)
(* effect places the first nodes around (0, 0), the mode-switch effect     *)
(* perturbs them, the loop effect returns before starting the loop and the *)
(* host's resetView timer is set.                                          *)
(***************************************************************************)
Mounted(ns, ls, rv, b) ==
  /\ randomValues = rv
  /\ listView = NULL
  /\ nodes = ns
  /\ links = ls
  /\ dimensions = NoViewport
  /\ layoutMode = "graph"
  /\ weakestPathNode = NULL
  /\ parentMap = ParentMapOf(ns, ls)
  /\ childrenMap = ChildrenMapOf(ns, ls)
  /\ weakestPathNodes = << >>
  /\ weakestPathLinks = << >>
  /\ pathNodeIds = {}
  /\ \E fresh \in [Ids(ns) -> RandomPair] : \E kick \in [Ids(ns) -> RandomPair] :
       nodePositions = Perturb(Reconcile(<< >>, ns, NoViewport, fresh), kick)
  /\ transform = Identity
  /\ targetTransform = NULL
  /\ isStable = FALSE
  /\ orbitCenteringDone = TRUE
  /\ dragStartPos = Pt(0, 0)
  /\ draggedNode = NULL
  /\ isDraggingNode = FALSE
  /\ isPanning = FALSE
  /\ hoveredNode = NULL
  /\ rafPending = 0
  /\ rafIdLive = FALSE
  /\ downEnv = Env(ns, "graph", NULL)
  /\ moveEnv = Env(ns, "graph", NULL)
  /\ upEnv = Env(ns, "graph", NULL)
  /\ resetTimer = TRUE
  /\ pointer = NULL
  /\ pc = "idle"
  /\ lastOp = [op |-> "mount", changed |-> {}, prevIds |-> {}, was |-> "Idle",
               over |-> NULL, fired |-> FALSE, node |-> NULL, dragged |-> NULL,
               hover |-> FALSE, at |-> NULL, paired |-> FALSE]
  /\ gesture = NoGesture
  /\ budget = b
  /\ resizeTimer = FALSE
  /\ history = [removed |-> << >>, timerCause |-> {"mount"}, frame |-> 0]

Budget(r, t, i, c) == [renders |-> r, ticks |-> t, inputs |-> i, calls |-> c]

(***************************************************************************)
(* Pointer gestures in the three layout modes, over a subject and its      *)
(* question, both present from the mount.                                  *)
(***************************************************************************)
MaxPointerRenders == 2
MaxPointerTicks == 1
MaxPointerInputs == 3

\* two points less than 3 px apart on the nodes' first position, and a far one
PointerPoints == { Pt(2, 1), Pt(4, 1), Pt(200, 150) }

InitPointer ==
  Mounted(<< SubjectA, Q1 >>, << MkLink("subject-a", "q1") >>, {50},
          Budget(MaxPointerRenders, MaxPointerTicks, MaxPointerInputs, 1))

NextPointer ==
  \/ SetDimensions(Viewport)
  \/ \E m \in {"graph", "orbit"} : SetLayoutMode(m)
  \/ \E w \in {NULL, SubjectA} : SetWeakestPathNode(w)
  \/ LoopEffect
  \/ Tick
  \/ ResetTimerFires
  \/ \E p \in PointerPoints : handleMouseDown(p)
  \/ \E p \in PointerPoints : handleMouseMove(p)
  \/ \E p \in PointerPoints : handleMouseUp(p)

SpecPointer == InitPointer /\ [][NextPointer]_vars

\* C3: in every layout mode a pointerdown in Idle on a node enters
\* DraggingNode and one on empty space enters Panning, and a pointerup
\* leaves the state Idle.
C3_PointerStateMachine ==
  /\ (lastOp.op = "mousedown" /\ lastOp.was = "Idle") =>
       InteractionState = IF lastOp.over # NULL THEN "DraggingNode" ELSE "Panning"
  /\ lastOp.op = "mouseup" => InteractionState = "Idle"

\* C4: the pointerup that ends a gesture dispatches the click callback exactly
\* when the pointer never went 3 px or more away from the pointerdown
\* position, and dispatches it with the node under the pointer (or null).
C4_ClickOnlyBelowThreshold ==
  (lastOp.op = "mouseup" /\ lastOp.paired) =>
    /\ lastOp.fired <=> ~gesture.far
    /\ lastOp.fired => lastOp.node = lastOp.over

\* C10: in force mode, right after the pointerup that releases a dragged node
\* at the client point P where the last move pinned it, the node's entry is
\* the model-space point under P with zero velocity.
C10_ReleasedNodeAtPointer ==
  (/\ lastOp.op = "mouseup"
   /\ lastOp.dragged # NULL
   /\ layoutMode = "graph"
   /\ weakestPathNode = NULL
   /\ gesture.pinnedAt = pointer) =>
    nodePositions[lastOp.dragged.id] =
      [x |-> getMousePos(pointer, transform).x, y |-> getMousePos(pointer, transform).y,
       vx |-> 0, vy |-> 0]

\* C28: a pointer move in DraggingNode or Panning leaves the hovered node as
\* it is and does not call onNodeHover; onNodeHover is called only by a move
\* in Idle, only when the id of the node under the pointer differs from the
\* hovered node's id, and with the node that is then held as hovered.
C28_HoverOnlyFromIdle ==
  [][/\ (lastOp'.op \in {"drag", "pan", "hover"} /\ InteractionState # "Idle") =>
          (hoveredNode' = hoveredNode /\ ~lastOp'.hover)
     /\ lastOp'.hover =>
          /\ lastOp'.op = "hover"
          /\ InteractionState = "Idle"
          /\ IF hoveredNode = NULL \/ hoveredNode' = NULL
             THEN hoveredNode # hoveredNode'
             ELSE hoveredNode.id # hoveredNode'.id
          /\ hoveredNode' = lastOp'.node
     /\ (lastOp'.op = "hover" /\ ~lastOp'.hover) => hoveredNode' = hoveredNode]_vars

\* a pan has moved the pointer off the node that is still held as hovered
C28_Witness ==
  /\ lastOp.op = "pan"
  /\ hoveredNode # NULL
  /\ NodeUnder(pointer) = NULL

\* C29: in every reachable state at most one of "a node is dragged" and
\* "panning" holds.
C29_DragOrPanNotBoth == ~((draggedNode # NULL \/ isDraggingNode) /\ isPanning)

\* C23: in force and orbit mode, right after a frame that ran while a node
\* is dragged and a move has pinned it at client point P, the node's entry is
\* the model-space point under P with zero velocity.
C23_DraggedNodePinnedEachFrame ==
  (/\ lastOp.op = "tick"
   /\ draggedNode # NULL
   /\ weakestPathNode = NULL
   /\ gesture.pinnedAt # NULL
   /\ draggedNode.id \in DOMAIN nodePositions) =>
    nodePositions[draggedNode.id] =
      [x |-> getMousePos(gesture.pinnedAt, transform).x,
       y |-> getMousePos(gesture.pinnedAt, transform).y, vx |-> 0, vy |-> 0]

(***************************************************************************)
(* Rebuilds of the node set while the simulation runs.                     *)
(***************************************************************************)
MaxStoreRenders == 3
MaxStoreTicks == 1

StoreNodeSets == { << >>, << Q1 >>, << Q1, Q2 >>, << Q2, Q3 >>, << Q1Answered >> }

InitStore ==
  \E ns \in { << >>, << Q1 >> } :
    Mounted(ns, << >>, RandomPct, Budget(MaxStoreRenders, MaxStoreTicks, 0, 0))

NextStore ==
  \/ SetDimensions(Viewport)
  \/ \E ns \in StoreNodeSets : SetQuestions(ns, << >>)
  \/ LoopEffect
  \/ Tick

SpecStore == InitStore /\ [][NextStore]_vars

\* C1: a commit that rebuilds the node set leaves the Position Store with an
\* entry for every id of the new set and for no other id, and the entry of an
\* id that was in the store before is the entry it had, position and velocity.
C1_ReconcileMerges ==
  [][("nodes" \in lastOp'.changed /\ lastOp'.op = "render") =>
       /\ DOMAIN nodePositions' = Ids(nodes')
       /\ \A id \in DOMAIN nodePositions' \cap DOMAIN nodePositions :
            nodePositions'[id] = nodePositions[id]]_vars

\* a rebuild that kept a moving node, dropped a node and added a node
C1_Witness ==
  /\ lastOp.op = "render"
  /\ "nodes" \in lastOp.changed
  /\ \E id \in lastOp.prevIds \cap DOMAIN nodePositions : nodePositions[id].vx # 0
  /\ lastOp.prevIds \ DOMAIN nodePositions # {}
  /\ DOMAIN nodePositions \ lastOp.prevIds # {}

\* C11: a commit that rebuilds the node set leaves no entry for an id that is
\* no longer in the input, and the entry of an id that was not in the store is
\* fresh: velocity (0, 0), position within 50 units of the viewport center on
\* each axis, and not the moving entry the id had when it was removed earlier.
C11_ReaddedEntryFresh ==
  [][("nodes" \in lastOp'.changed /\ lastOp'.op = "render") =>
       /\ \A id \in DOMAIN nodePositions \ Ids(nodes') : id \notin DOMAIN nodePositions'
       /\ \A id \in DOMAIN nodePositions' \ DOMAIN nodePositions :
            /\ nodePositions'[id].vx = 0
            /\ nodePositions'[id].vy = 0
            /\ Abs(nodePositions'[id].x - (dimensions'.width * PS) \div 2) <= 50 * PS
            /\ Abs(nodePositions'[id].y - (dimensions'.height * PS) \div 2) <= 50 * PS
            /\ (id \in DOMAIN history.removed /\ history.removed[id].vx # 0) =>
                 nodePositions'[id] # history.removed[id]]_vars

\* a rebuild that adds again an id whose entry, moved by a frame and still
\* moving, was pruned by an earlier rebuild
C11_Witness ==
  /\ lastOp.op = "render"
  /\ "nodes" \in lastOp.changed
  /\ dimensions = Viewport
  /\ \E id \in (DOMAIN nodePositions \ lastOp.prevIds) \cap DOMAIN history.removed :
       /\ history.removed[id].vx # 0
       /\ history.removed[id].x # nodePositions[id].x
       /\ nodePositions[id].vx = 0

(***************************************************************************)
(* The camera: wheel, pan, zoom buttons, resetView and the camera ticks,   *)
(* over two questions present from the mount.                              *)
(***************************************************************************)
MaxCameraTicks == 1
MaxCameraInputs == 3
MaxCameraCalls == 1

CameraPoints == { Pt(0, 0), Pt(200, 150), Pt(400, 300) }
CameraMoves == { Pt(200, 150), Pt(400, 300) }
\* deltaY of a wheel event: factor 0.1 and factor 2
WheelDeltas == { 900, -1000 }

InitCamera ==
  Mounted(<< Q1, Q2 >>, << >>, {50},
          Budget(1, MaxCameraTicks, MaxCameraInputs, MaxCameraCalls))

NextCamera ==
  \/ SetDimensions(Viewport)
  \/ LoopEffect
  \/ Tick
  \/ \E p \in CameraPoints : handleMouseDown(p)
  \/ \E p \in CameraMoves : handleMouseMove(p)
  \/ \E p \in CameraMoves : handleMouseUp(p)
  \/ \E p \in CameraPoints : \E deltaY \in WheelDeltas : handleWheel(p, deltaY)
  \/ zoomIn
  \/ zoomOut
  \/ ResetViewButton
  \/ ResetTimerFires

SpecCamera == InitCamera /\ [][NextCamera]_vars

\* C35: no pointer or wheel handler changes the Position Store or the current
\* transform.
C35_HandlersOnlyRecordIntent ==
  [][lastOp'.op \in {"mousedown", "drag", "pan", "hover", "mouseup", "wheel"} =>
       (nodePositions' = nodePositions /\ transform' = transform)]_vars

\* C2: in every reachable state the scale k of the current transform lies
\* within [kMin, kMax] = [0.2, 5].
C2_ScaleWithinBounds == KMin <= transform.k /\ transform.k <= KMax

\* C5: in the state right after a pan step (a pointer move while panning) or a
\* wheel zoom there is no pending camera target.
C5_PanAndWheelCancelTarget ==
  lastOp.op \in {"pan", "wheel"} => targetTransform = NULL

\* the error of the model point under a screen point that the rounding of the
\* translation to 1/PS pixel allows at scale k, in 1/PS units
PointTolerance(k) == 2 + KS \div (2 * k)

\* C8: a wheel zoom at screen point p leaves the model-space point under p,
\* (p - x) / k, as it was, whether or not the new scale was clamped.
C8_WheelKeepsPointUnderCursor ==
  [][lastOp'.op = "wheel" =>
       /\ Abs(getMousePos(lastOp'.at, transform').x - getMousePos(lastOp'.at, transform).x)
            <= PointTolerance(transform'.k)
       /\ Abs(getMousePos(lastOp'.at, transform').y - getMousePos(lastOp'.at, transform).y)
            <= PointTolerance(transform'.k)]_vars

\* a wheel zoom at the middle of the canvas whose scale was clamped at kMax
C8_Witness ==
  /\ lastOp.op = "wheel"
  /\ lastOp.at = Pt(200, 150)
  /\ transform.k = KMax
  /\ transform.x # 0

\* node n's radius plus margin contains the model-space point q
Contains(n, q, pos) ==
  /\ n.id \in DOMAIN pos
  /\ HypotLess(q.x - pos[n.id].x, q.y - pos[n.id].y, (n.radius + HitMargin) * PS)

\* model-space points to test: for every node its position, the point of its
\* rim (radius units to the right) and the point one unit beyond its margin
HitProbes ==
  UNION { { [x |-> nodePositions[n.id].x + off * PS, y |-> nodePositions[n.id].y] :
              off \in { 0, n.radius, n.radius + HitMargin + 1 } } :
          n \in { m \in Range(nodes) : m.id \in DOMAIN nodePositions } }

\* C12: at every scale of the transform, hit-testing a model-space point
\* returns a node when the point is a node's position, returns no node when
\* the point is farther than radius + margin from every node, and returns the
\* last node of the list among those whose radius + margin contains the point.
C12_HitTestTopmostWithinMargin ==
  \A q \in HitProbes :
    /\ (\E id \in DOMAIN nodePositions :
          q.x = nodePositions[id].x /\ q.y = nodePositions[id].y) =>
         findNodeAtPos(nodes, q, transform, nodePositions) # NULL
    /\ (\A i \in DOMAIN nodes : ~Contains(nodes[i], q, nodePositions)) =>
         findNodeAtPos(nodes, q, transform, nodePositions) = NULL
    /\ findNodeAtPos(nodes, q, transform, nodePositions) =
         LastOf(nodes, { i \in DOMAIN nodes : Contains(nodes[i], q, nodePositions) })

(***************************************************************************)
(* The camera animation run to its end: one question, frames without a     *)
(* limit, one pointer gesture and two calls that set a target.  The frame  *)
(* callback runs as long as a frame is requested; the schedules followed   *)
(* are those where the inputs and calls all arrive before the next frame.  *)
(***************************************************************************)
MaxEasingInputs == 3
MaxEasingCalls == 2

\* a point on the question's first position, a point of the canvas's top row
\* and the middle of the canvas
EasingPoints == { Pt(2, 1), Pt(200, 0), Pt(200, 150) }

InitEasing ==
  Mounted(<< Q1 >>, << >>, {50}, Budget(1, Unbounded, MaxEasingInputs, MaxEasingCalls))

\* no input, call or commit is to come, no gesture is in progress and no
\* timer is pending
Quiet ==
  /\ pc = "idle"
  /\ InteractionState = "Idle"
  /\ budget.renders = 0
  /\ budget.inputs = 0
  /\ budget.calls = 0
  /\ ~resetTimer

NextEasing ==
  \/ SetDimensions(Viewport)
  \/ LoopEffect
  \/ (Quiet /\ Tick)
  \/ \E p \in EasingPoints : handleMouseDown(p)
  \/ \E p \in EasingPoints : handleMouseMove(p)
  \/ \E p \in EasingPoints : handleMouseUp(p)
  \/ zoomIn
  \/ zoomOut
  \/ ResetViewButton
  \/ ResetTimerFires

\* The browser runs a requested frame and React runs the effects of a commit:
\* both are weakly fair.  A step of NextEasing flips history.frame exactly
\* when it is a frame, and takes pc from "loopEffect" to "idle" exactly when
\* it is the loop effect, so the fairness conditions are stated on these.
FrameFires ==
  /\ Quiet
  /\ rafPending > 0
  /\ budget.ticks # 0
  /\ history' = [history EXCEPT !.frame = 1 - @]

EffectRuns == pc = "loopEffect" /\ pc' = "idle"

SpecEasing ==
  InitEasing /\ [][NextEasing]_vars /\ WF_history(FrameFires) /\ WF_pc(EffectRuns)

\* C13: when a camera target is pending and no further input arrives, the
\* frames that follow clear the target after finitely many of them, none of
\* them replaces it, and the frame that clears it leaves the transform equal
\* to it.
C13_PendingTargetReached ==
  /\ (Quiet /\ targetTransform # NULL) ~> (targetTransform = NULL)
  /\ [][(Quiet /\ targetTransform # NULL /\ lastOp'.op = "tick") =>
          /\ targetTransform' \in {targetTransform, NULL}
          /\ targetTransform' = NULL => transform' = targetTransform]_vars

\* a component moved from a to b with target t: it is a number, no farther
\* from t than before, not past t, and at t or 0.08 of the way to it
Toward(a, b, t) ==
  /\ a # NaN /\ b # NaN /\ t # NaN
  /\ Abs(b - t) <= Abs(a - t)
  /\ Sgn(b - t) \in {0, Sgn(a - t)}
  /\ b = t \/ Abs((b - a) * 100 - (t - a) * BlendPct) <= 50

\* C14: a frame that runs with a pending camera target moves each of k, x and
\* y toward the target by the blend factor: its distance to the target does
\* not grow and it does not pass the target.
C14_EasingMonotone ==
  [][(targetTransform # NULL /\ lastOp'.op = "tick") =>
       /\ Toward(transform.k, transform'.k, targetTransform.k)
       /\ Toward(transform.x, transform'.x, targetTransform.x)
       /\ Toward(transform.y, transform'.y, targetTransform.y)]_vars

(***************************************************************************)
(* The life of the component: the first measurement, window resizes with   *)
(* their debounce, rebuilds, mode switches, a zoom call and the teardown.  *)
(***************************************************************************)
MaxLifecycleRenders == 3
MaxLifecycleTicks == 2
MaxLifecycleInputs == 2
MaxLifecycleCalls == 2

\* what the container measures after a resize: hidden, as at first, or smaller
NarrowViewport == [width |-> 300, height |-> 200]
ResizedViewports == { NoViewport, Viewport, NarrowViewport }

InitLifecycle ==
  Mounted(<< Q1, Q2 >>, << >>, {50},
          Budget(MaxLifecycleRenders, MaxLifecycleTicks, MaxLifecycleInputs,
                 MaxLifecycleCalls))

NextLifecycle ==
  \/ (history.timerCause = {"mount"} /\ SetDimensions(Viewport))
  \/ WindowResize
  \/ \E d \in ResizedViewports : ResizeTimerFires(d)
  \/ \E ns \in { << Q1 >>, << Q1, Q2 >> } : SetQuestions(ns, << >>)
  \/ \E m \in {"graph", "orbit"} : SetLayoutMode(m)
  \/ LoopEffect
  \/ Tick
  \/ ResetTimerFires
  \/ zoomIn
  \/ Unmount

SpecLifecycle == InitLifecycle /\ [][NextLifecycle]_vars

\* C17: the commit of a viewport resize leaves the transform and the target
\* as they were, and the refit that follows the resize (the host's resetView
\* timer restarted by that commit) does not replace a target that is pending
\* when it fires.
C17_ResizeKeepsPendingTarget ==
  [][/\ (lastOp'.op = "render" /\ "resize" \in lastOp'.changed) =>
          /\ transform' = transform
          /\ targetTransform' = targetTransform
     /\ (lastOp'.op = "resetView" /\ resetTimer /\ ~resetTimer'
          /\ "resize" \in history.timerCause /\ targetTransform # NULL) =>
          targetTransform' = targetTransform]_vars

\* C18: after the teardown no frame and no timer is pending and no frame has
\* run; at every moment at most one frame is pending.
C18_TeardownLeavesNothingScheduled ==
  /\ rafPending <= 1
  /\ pc = "unmounted" =>
       /\ rafPending = 0
       /\ ~resetTimer
       /\ ~resizeTimer
       /\ lastOp.op # "tick"

(***************************************************************************)
(* Orbit mode run until nothing moves: one subject with a question of      *)
(* weight 0 and a question of weight 100, every random draw of a run the   *)
(* same value, frames without a limit once the commits are done.           *)
(***************************************************************************)
MaxOrbitRenders == 2
MaxOrbitCalls == 1

QWeak == MkNode("q1", "question", 5, 0, 0)
QStrong == MkNode("q2", "question", 5, 100, 0)

InitOrbit ==
  \E rv \in { {0}, {50} } :
    Mounted(<< SubjectA, QWeak, QStrong >>,
            << MkLink("subject-a", "q1"), MkLink("subject-a", "q2") >>,
            rv, Budget(MaxOrbitRenders, Unbounded, 0, MaxOrbitCalls))

NextOrbit ==
  \/ SetDimensions(Viewport)
  \/ \E m \in {"graph", "orbit"} : SetLayoutMode(m)
  \/ LoopEffect
  \/ ResetTimerFires
  \/ (Quiet /\ Tick)

SpecOrbit == InitOrbit /\ [][NextOrbit]_vars

\* distance of point p from the center of the canvas
FromCenter(p) ==
  Dist(p.x - (dimensions.width * PS) \div 2, p.y - (dimensions.height * PS) \div 2)

\* orbit mode runs and no frame moves a node any more
OrbitSteady ==
  /\ pc = "idle"
  /\ layoutMode = "orbit"
  /\ weakestPathNode = NULL
  /\ dimensions.width # 0
  /\ {"q1", "q2"} \subseteq DOMAIN nodePositions
  /\ \A jit \in JitterDraws :
       runOrbitLayout(nodes, dimensions, parentMap, nodePositions, draggedNode, jit).pos
         = nodePositions

\* C19: the orbit radius falls strictly as the weight rises from 0 to 100
\* (each weight's radius is greater than the next weight's);
\* for the two questions of one subject with weights 0 and 100 the orbit
\* target of the first is farther from the center than that of the second
\* whatever their random draws, and so is the first question itself once
\* orbit mode has come to rest.
C19_OrbitRadiusDecreasing ==
  dimensions.width # 0 =>
    /\ \A w \in 0..99 :
         FromCenter(OrbitPoint(dimensions, 0, w))
           > FromCenter(OrbitPoint(dimensions, 0, w + 1))
    /\ \A r1, r2 \in {0, 50, 97} :
         FromCenter(OrbitTarget(QWeak, nodes, dimensions, parentMap, r1))
           > FromCenter(OrbitTarget(QStrong, nodes, dimensions, parentMap, r2))
    /\ OrbitSteady =>
         FromCenter(nodePositions["q1"]) > FromCenter(nodePositions["q2"])

\* orbit mode has come to rest after frames that moved the two questions
C19_Witness ==
  /\ OrbitSteady
  /\ lastOp.op = "tick"
  /\ FromCenter(nodePositions["q1"]) > 100 * PS
  /\ FromCenter(nodePositions["q2"]) < 20 * PS

(***************************************************************************)
(* Settling of the force simulation and what perturbs it: the graph starts *)
(* empty and questions arrive after the viewport is known.                 *)
(***************************************************************************)
MaxSettleRenders == 3
MaxSettleTicks == 2

SettleNodeSets == { << Q1 >>, << Q1, Q2 >> }

InitSettle ==
  Mounted(<< >>, << >>, RandomPct, Budget(MaxSettleRenders, MaxSettleTicks, 1, 1))

NextSettle ==
  \/ SetDimensions(Viewport)
  \/ \E ns \in SettleNodeSets : SetQuestions(ns, << >>)
  \/ \E m \in {"graph", "orbit"} : SetLayoutMode(m)
  \/ LoopEffect
  \/ Tick
  \/ ResetTimerFires
  \/ \E p \in { Pt(200, 150), Pt(150, 100) } : handleMouseDown(p)

SpecSettle == InitSettle /\ [][NextSettle]_vars

ForceMode == layoutMode = "graph" /\ weakestPathNode = NULL

\* C6: in force mode a tick of the settled engine changes no position or
\* velocity, and the engine is not settled right after a commit that changed
\* the node set, after a commit that switched to force mode, and after a
\* pointerdown that starts dragging a node.
C6_SettledUntilPerturbed ==
  [][/\ (lastOp'.op = "tick" /\ ForceMode /\ isStable /\ draggedNode = NULL) =>
          nodePositions' = nodePositions
     /\ (lastOp'.op = "render" /\ ForceMode' /\ Ids(nodes') # Ids(nodes)) => ~isStable'
     /\ (lastOp'.op = "render" /\ ForceMode' /\ ~ForceMode) => ~isStable'
     /\ (lastOp'.op = "mousedown" /\ ForceMode /\ draggedNode' # draggedNode) =>
          ~isStable']_vars

\* C16: a commit that rebuilt the nodes or links or switched the layout mode
\* leaves the transform and the pending camera target as they were; the
\* host's resetView timer restarted by such a commit does not change the
\* target when it fires (that refit was not requested); and a frame that runs
\* with no target pending leaves the transform alone and sets no target.
C16_RebuildKeepsCamera ==
  [][/\ (lastOp'.op = "render"
          /\ {"nodes", "links", "mode", "weakest"} \cap lastOp'.changed # {}) =>
          /\ transform' = transform
          /\ targetTransform' = targetTransform
     /\ (lastOp'.op = "resetView" /\ resetTimer /\ ~resetTimer'
          /\ {"nodes", "links", "mode", "weakest"} \cap history.timerCause # {}) =>
          targetTransform' = targetTransform
     /\ (lastOp'.op \in {"loopEffect", "tick"} /\ targetTransform = NULL) =>
          /\ transform' = transform
          /\ targetTransform' = NULL]_vars

(***************************************************************************)
(* Graphs of the catalogue in the three layout modes: a subject with three *)
(* questions, a subject and topic whose questions tie, and a graph whose   *)
(* links run through a topic that is not in the node set.                  *)
(***************************************************************************)
MaxCatalogueRenders == 3
MaxCatalogueTicks == 2

Graph(ns, ls) == [nodes |-> ns, links |-> ls]

Catalogue ==
  { Graph(<< SubjectA, Q1, Q2, Q3 >>,
          << MkLink("subject-a", "q1"), MkLink("subject-a", "q2"),
             MkLink("subject-a", "q3") >>),
    Graph(<< SubjectA, TopicA1, Q3Tied, Q2, Q1 >>,
          << MkLink("subject-a", "topic-a-t1"), MkLink("topic-a-t1", "q3"),
             MkLink("topic-a-t1", "q2"), MkLink("topic-a-t1", "q1") >>),
    Graph(<< SubjectA, SubjectB, Q1 >>,
          << MkLink("subject-b", "topic-a-t1"), MkLink("topic-a-t1", "q1") >>) }

InitCatalogue ==
  \E g \in Catalogue : \E rv \in { {0}, {50} } :
    Mounted(g.nodes, g.links, rv, Budget(MaxCatalogueRenders, MaxCatalogueTicks, 0, 0))

NextCatalogue ==
  \/ SetDimensions(Viewport)
  \/ \E m \in {"graph", "orbit"} : SetLayoutMode(m)
  \/ \E w \in {NULL, SubjectA, SubjectB, TopicA1} : SetWeakestPathNode(w)
  \/ LoopEffect
  \/ Tick

SpecCatalogue == InitCatalogue /\ [][NextCatalogue]_vars

\* the links whose two ends are nodes of ns
KnownLinks(ns, ls) ==
  SelectSeqBy(ls, { l \in Range(ls) : l.source \in Ids(ns) /\ l.target \in Ids(ns) })

\* C7: the layout computed from the links given is the layout computed from
\* the links with those of an unknown end removed: the spring forces in force
\* mode, the result of the orbit layout in orbit mode, the focus path in
\* focus-path mode.
C7_UnknownLinksDropped ==
  /\ ForceMode =>
       LinkSprings(links, nodePositions) = LinkSprings(KnownLinks(nodes, links), nodePositions)
  /\ (layoutMode = "orbit" /\ weakestPathNode = NULL /\ dimensions.width # 0) =>
       \A jit \in JitterDraws :
         runOrbitLayout(nodes, dimensions, parentMap, nodePositions, draggedNode, jit)
           = runOrbitLayout(nodes, dimensions, ParentMapOf(nodes, KnownLinks(nodes, links)),
                            nodePositions, draggedNode, jit)
  /\ weakestPathNode # NULL =>
       weakestPathNodes =
         WeakestPathNodesOf(weakestPathNode, nodes,
                            ChildrenMapOf(nodes, KnownLinks(nodes, links)))

ScoreOf(n) == Coalesce(n.masteryScore, 0)
IndexIn(ns, n) == CHOOSE i \in DOMAIN ns : ns[i] = n
ScoresOf(ns) == [i \in DOMAIN ns |-> ScoreOf(ns[i])]

\* C9: the focus path holds the questions under its group in ascending score
\* order, questions of equal score in the order of the node list; its links
\* join each leaf to the next, n - 1 links for n leaves; scores given as
\* 80, 20, 50 are visited as 20, 50, 80.
C9_FocusPathAscending ==
  weakestPathNode # NULL =>
    /\ Range(weakestPathNodes) =
         { n \in Range(nodes) :
             n.type = "question" /\ n.id \in AllDescendants(weakestPathNode, childrenMap) }
    /\ \A i, j \in DOMAIN weakestPathNodes :
         i < j => /\ ScoreOf(weakestPathNodes[i]) <= ScoreOf(weakestPathNodes[j])
                  /\ ScoreOf(weakestPathNodes[i]) = ScoreOf(weakestPathNodes[j]) =>
                       IndexIn(nodes, weakestPathNodes[i]) < IndexIn(nodes, weakestPathNodes[j])
    /\ Len(weakestPathLinks) = Max2(Len(weakestPathNodes) - 1, 0)
    /\ \A i \in DOMAIN weakestPathLinks :
         weakestPathLinks[i] = MkLink(weakestPathNodes[i].id, weakestPathNodes[i + 1].id)
    /\ ScoresOf(QuestionsOnPath(weakestPathNode, nodes, childrenMap)) = << 80, 20, 50 >> =>
         ScoresOf(weakestPathNodes) = << 20, 50, 80 >>

\* the focus path of the questions given with scores 80, 20, 50
C9_Witness ==
  /\ weakestPathNode # NULL
  /\ ScoresOf(QuestionsOnPath(weakestPathNode, nodes, childrenMap)) = << 80, 20, 50 >>
  /\ ScoresOf(weakestPathNodes) = << 20, 50, 80 >>
  /\ Len(weakestPathLinks) = 2

MaxEmptyRenders == 4
MaxEmptyTicks == 2
MaxEmptyCalls == 2

InitEmpty ==
  \E g \in { Graph(<< >>, << >>),
              Graph(<< SubjectA, Q1 >>, << MkLink("subject-a", "q1") >>) } :
    Mounted(g.nodes, g.links, {50}, Budget(MaxEmptyRenders, MaxEmptyTicks, 0, MaxEmptyCalls))

NextEmpty ==
  \/ SetDimensions(Viewport)
  \/ SetQuestions(<< >>, << >>)
  \/ \E m \in {"graph", "orbit"} : SetLayoutMode(m)
  \/ \E w \in {NULL, SubjectA} : SetWeakestPathNode(w)
  \/ LoopEffect
  \/ Tick
  \/ ResetTimerFires
  \/ ResetViewButton

SpecEmpty == InitEmpty /\ [][NextEmpty]_vars

\* C21: while the node set is empty the Position Store is empty, a run of
\* loop (a frame, or the run that ends the loop effect) leaves it empty and
\* sets no camera target, in every mode, and resetView sets the identity
\* target.
C21_EmptyGraphIsInert ==
  [][Len(nodes) = 0 =>
       /\ pc = "idle" => DOMAIN nodePositions = {}
       /\ lastOp'.op \in {"tick", "loopEffect"} =>
            /\ DOMAIN nodePositions' = {}
            /\ targetTransform' \in {targetTransform, NULL}
       /\ lastOp'.op = "resetView" => targetTransform' = Identity]_vars

\* a frame has run in orbit mode on an empty node set with the centering
\* still due
C21_Witness ==
  /\ lastOp.op = "tick"
  /\ Len(nodes) = 0
  /\ layoutMode = "orbit"
  /\ weakestPathNode = NULL
  /\ dimensions.width # 0
  /\ ~orbitCenteringDone

(***************************************************************************)
(* The orbit centering: one question in orbit mode, frames without a limit *)
(* once the commits are done, every frame drawing its jitter anew.         *)
(***************************************************************************)
\* a question whose orbit lies near the center
QNear == MkNode("q1", "question", 5, 95, 0)

\* the draws of the placement were both 0.5; the later draws are 0 or 0.5
InitCentering ==
  /\ Mounted(<< QNear >>, << >>, {0, 50},
             Budget(MaxOrbitRenders, Unbounded, 0, MaxOrbitCalls))
  /\ nodePositions["q1"] = FreshPosition(NoViewport, [rx |-> 50, ry |-> 50])

\* the first measurement, then the switch to orbit mode
NextCentering ==
  \/ (history.timerCause = {"mount"} /\ SetDimensions(Viewport))
  \/ (dimensions.width # 0 /\ SetLayoutMode("orbit"))
  \/ LoopEffect
  \/ ResetTimerFires
  \/ (Quiet /\ Tick)

SpecCentering ==
  InitCentering /\ [][NextCentering]_vars /\ WF_history(FrameFires) /\ WF_pc(EffectRuns)

\* orbit mode runs its layout and the centering is still due
CenteringDue ==
  /\ layoutMode = "orbit"
  /\ weakestPathNode = NULL
  /\ dimensions.width # 0
  /\ ~orbitCenteringDone

\* C22: a switch to orbit mode makes the centering due; while it is due and
\* no further input arrives the frames bring the aggregate motion under the
\* threshold, and the frame that finds it there calls resetView and ends the
\* centering; no later frame refits until the next switch to orbit mode.
C22_OrbitCentersOnce ==
  /\ (Quiet /\ CenteringDue) ~> orbitCenteringDone
  /\ [][/\ (lastOp'.op = "render" /\ "mode" \in lastOp'.changed /\ layoutMode' = "orbit") =>
             ~orbitCenteringDone'
        /\ (lastOp'.op \in {"tick", "loopEffect"} /\ CenteringDue /\ orbitCenteringDone') =>
             targetTransform' = Identity
        /\ (lastOp'.op \in {"tick", "loopEffect"} /\ orbitCenteringDone) =>
             /\ orbitCenteringDone'
             /\ targetTransform' \in {targetTransform, NULL}]_vars

\* C32: the frame in which the orbit layout requests its refit also advances
\* the camera toward the target the refit has set: after that frame the
\* transform and the pending target are those of one camera step from the
\* transform before the frame toward that target.
C32_RefitAdvancedInSameFrame ==
  [][(lastOp'.op \in {"tick", "loopEffect"} /\ CenteringDue /\ orbitCenteringDone') =>
       /\ transform' = CameraStep(transform, Identity).transform
       /\ targetTransform' = CameraStep(transform, Identity).target]_vars

Finite(p) == p.x # NaN /\ p.y # NaN /\ p.vx # NaN /\ p.vy # NaN

\* two entries of the store at the same point
Coincident(a, b) ==
  /\ nodePositions[a].x = nodePositions[b].x
  /\ nodePositions[a].y = nodePositions[b].y

\* C37: the distance the force loops divide by is 1 unit for a pair of
\* coincident nodes and more than zero for every pair, and in force mode
\* every position and velocity of the store is finite, before and after every
\* frame.
C37_CoincidentPairsAtDistanceOne ==
  (layoutMode = "graph" /\ weakestPathNode = NULL) =>
    /\ \A a, b \in DOMAIN nodePositions :
         LET d == DistOr1(nodePositions[b].x - nodePositions[a].x,
                          nodePositions[b].y - nodePositions[a].y)
         IN d > 0 /\ (Coincident(a, b) => d = PS)
    /\ \A id \in DOMAIN nodePositions : Finite(nodePositions[id])

\* a force frame has run on two linked nodes at the same point
C37_Witness ==
  /\ lastOp.op = "tick"
  /\ layoutMode = "graph"
  /\ weakestPathNode = NULL
  /\ \E i \in DOMAIN links :
       /\ links[i].source \in DOMAIN nodePositions
       /\ links[i].target \in DOMAIN nodePositions
       /\ Coincident(links[i].source, links[i].target)
       /\ nodePositions[links[i].source].vx # 0

\* C26: an orbit frame is determined by the state it starts from: whatever
\* the frame draws, every node gets the same target and the store the same
\* positions.
C26_OrbitDeterministic ==
  [][(lastOp'.op = "tick" /\ layoutMode = "orbit" /\ weakestPathNode = NULL) =>
       /\ \A i \in 1..Len(nodes) : \A r1, r2 \in randomValues :
            OrbitTarget(nodes[i], nodes, dimensions, parentMap, r1)
              = OrbitTarget(nodes[i], nodes, dimensions, parentMap, r2)
       /\ \A jit \in JitterDraws : loop(jit).pos = nodePositions']_vars

(***************************************************************************)
(* Pointer events around a rebuild of the node set that changes neither    *)
(* the layout mode, nor the focus target, nor the callbacks.               *)
(***************************************************************************)
MaxRebuildRenders == 2
MaxRebuildInputs == 3

InitRebuild ==
  Mounted(<< Q1 >>, << >>, {50}, Budget(MaxRebuildRenders, 0, MaxRebuildInputs, 0))

NextRebuild ==
  \/ (history.timerCause = {"mount"} /\ dimensions.width = 0 /\ SetDimensions(Viewport))
  \/ \E ns \in { << Q1Answered >>, << Q2 >> } : SetQuestions(ns, << >>)
  \/ LoopEffect
  \/ \E p \in PointerPoints : handleMouseDown(p)
  \/ \E p \in PointerPoints : handleMouseMove(p)
  \/ \E p \in PointerPoints : handleMouseUp(p)

SpecRebuild == InitRebuild /\ [][NextRebuild]_vars

InNodes(n) == \E i \in 1..Len(nodes) : nodes[i] = n

\* C24: the node held as hovered or dragged, and the node handed to
\* onNodeHover or onNodeClick by the last pointer event, is an element of the
\* node list of the latest render (same id, same payload).
C24_NodesAreCurrent ==
  /\ hoveredNode # NULL => InNodes(hoveredNode)
  /\ draggedNode # NULL => InNodes(draggedNode)
  /\ (lastOp.op = "hover" /\ lastOp.hover /\ lastOp.node # NULL) => InNodes(lastOp.node)
  /\ (lastOp.op = "mouseup" /\ lastOp.fired /\ lastOp.node # NULL) => InNodes(lastOp.node)

(***************************************************************************)
(* The fit of resetView.                                                   *)
(***************************************************************************)
\* the nodes resetView frames that have a position
Framed ==
  { n \in Range(nodes) : /\ n.id \in DOMAIN nodePositions
                         /\ weakestPathNode # NULL => n.id \in pathNodeIds }

\* the screen coordinate of the model coordinate c under scale k and offset o
OnScreen(c, k, o) == MulDiv(c, k, KS) + o

FramedXs == { nodePositions[n.id].x : n \in Framed }
FramedYs == { nodePositions[n.id].y : n \in Framed }
SetMin(S) == CHOOSE a \in S : \A b \in S : a <= b
SetMax(S) == CHOOSE a \in S : \A b \in S : a >= b

\* C25: right after resetView in force or focus-path mode on a measured
\* canvas with framed nodes, the pending target has a scale of at most 1.5,
\* maps every framed node into the viewport, and maps the middle of the
\* framed nodes' bounding box to the middle of the viewport (within 1 px).
C25_ResetViewFramesNodes ==
  (/\ lastOp.op = "resetView"
   /\ layoutMode = "graph" \/ weakestPathNode # NULL
   /\ dimensions.width # 0
   /\ Framed # {}) =>
    /\ targetTransform # NULL
    /\ targetTransform.k <= MaxFitScale
    /\ targetTransform.x # NaN /\ targetTransform.y # NaN
    /\ \A n \in Framed :
         /\ OnScreen(nodePositions[n.id].x, targetTransform.k, targetTransform.x) \in 0..(dimensions.width * PS)
         /\ OnScreen(nodePositions[n.id].y, targetTransform.k, targetTransform.y) \in 0..(dimensions.height * PS)
    /\ Abs(OnScreen((SetMin(FramedXs) + SetMax(FramedXs)) \div 2, targetTransform.k, targetTransform.x)
            - (dimensions.width * PS) \div 2) <= PS
    /\ Abs(OnScreen((SetMin(FramedYs) + SetMax(FramedYs)) \div 2, targetTransform.k, targetTransform.y)
            - (dimensions.height * PS) \div 2) <= PS

(***************************************************************************)
(* The grid of the focus path.                                             *)
(***************************************************************************)
\* the targets of the path leaves on the current canvas
GridTargets ==
  { SerpentinePosition(i - 1, Len(weakestPathNodes), dimensions) : i \in 1..Len(weakestPathNodes) }

\* the frame moves the i-th path leaf a tenth of the way to the cell
\* row = (i - 1) div rowWidth, column = (i - 1) mod rowWidth
LeavesSeekCells ==
  \A i \in 1..Len(weakestPathNodes) :
    LET id == weakestPathNodes[i].id
        npr == nodesPerRow(dimensions)
    IN id \in DOMAIN nodePositions =>
         nodePositions'[id] =
           Seek(nodePositions[id],
                GridCell((i - 1) \div npr, (i - 1) % npr, npr, Len(weakestPathNodes), dimensions), 10)

\* the middle of the targets' bounding box is the middle of the canvas
GridCentered ==
  /\ SetMin({ t.x : t \in GridTargets }) + SetMax({ t.x : t \in GridTargets }) = dimensions.width * PS
  /\ SetMin({ t.y : t \in GridTargets }) + SetMax({ t.y : t \in GridTargets }) = dimensions.height * PS

\* C27: in a focus-path frame the i-th path leaf seeks the cell in row
\* i div rowWidth and column i mod rowWidth, and the grid of the cells the
\* leaves seek is centered on the canvas.
C27_FocusGridCentered ==
  [][(/\ lastOp'.op = "tick"
      /\ weakestPathNode # NULL
      /\ nodesPerRow(dimensions) > 0
      /\ Len(weakestPathNodes) > 0) => (LeavesSeekCells /\ GridCentered)]_vars

(***************************************************************************)
(* The members of the focus path.                                          *)
(***************************************************************************)
RECURSIVE Subtree(_, _)
\* the ids reached from the ids S along the links ls, S included
Subtree(S, ls) ==
  LET T == S \cup { ls[i].target : i \in { j \in DOMAIN ls : ls[j].source \in S } }
  IN IF T = S THEN S ELSE Subtree(T, ls)

\* the question nodes under the focus target, links with an end that is not
\* a node left aside
LeavesUnderFocus ==
  { n \in Range(nodes) :
      /\ n.type = "question"
      /\ n.id \in Subtree({weakestPathNode.id}, KnownLinks(nodes, links)) }

\* C30: while a focus target is set, the focus path holds every question
\* node of the current node set that descends from the target through the
\* links exactly once, and nothing else.
C30_FocusPathIsSubtreeLeaves ==
  weakestPathNode # NULL =>
    /\ \A n \in LeavesUnderFocus :
         Cardinality({ j \in DOMAIN weakestPathNodes : weakestPathNodes[j] = n }) = 1
    /\ \A j \in DOMAIN weakestPathNodes : weakestPathNodes[j] \in LeavesUnderFocus

\* a focus on a subject whose questions hang two links below it
C30_Witness ==
  /\ weakestPathNode = SubjectA
  /\ TopicA1 \in Range(nodes)
  /\ Len(weakestPathNodes) = 3
  /\ lastOp.op = "render"

(***************************************************************************)
(* Focus-path frames on a wide and on a narrow canvas.                     *)
(***************************************************************************)
MaxGridRenders == 3
MaxGridTicks == 2

\* a canvas narrower than 150 px
TinyViewport == [width |-> 100, height |-> 80]

InitGrid ==
  \E rv \in { {0}, {50} } :
    Mounted(<< SubjectA, SubjectB, Q1, Q2, Q3 >>,
            << MkLink("subject-a", "q1"), MkLink("subject-a", "q2"), MkLink("subject-b", "q3") >>,
            rv, Budget(MaxGridRenders, MaxGridTicks, 0, 0))

NextGrid ==
  \/ \E d \in { Viewport, TinyViewport } : SetDimensions(d)
  \/ SetWeakestPathNode(SubjectA)
  \/ LoopEffect
  \/ Tick

SpecGrid == InitGrid /\ [][NextGrid]_vars

\* C31: a focus-path frame leaves the entry of every node that is not a leaf
\* of the focus path as it is, and moves every path leaf a tenth of the way
\* from its position to its grid cell, with that step as its velocity.
C31_FocusFrameMovesLeavesOnly ==
  [][(lastOp'.op = "tick" /\ weakestPathNode # NULL) =>
       \A id \in DOMAIN nodePositions :
         IF id \in Ids(weakestPathNodes)
         THEN /\ nodesPerRow(dimensions) > 0
              /\ nodePositions[id].x # NaN
              /\ nodePositions'[id] =
                   Seek(nodePositions[id],
                        SerpentinePosition(PathIndex(weakestPathNodes, id) - 1,
                                           Len(weakestPathNodes), dimensions), 10)
         ELSE nodePositions'[id] = nodePositions[id]]_vars

\* C33: on a canvas of width greater than zero the row width of the focus
\* grid is at least 1, and after a focus-path frame every entry of the store
\* is finite in position and velocity.
C33_FocusGridFinite ==
  (dimensions.width > 0 /\ weakestPathNode # NULL /\ lastOp.op \in {"tick", "loopEffect"}) =>
    /\ nodesPerRow(dimensions) >= 1
    /\ \A id \in DOMAIN nodePositions : Finite(nodePositions[id])

(***************************************************************************)
(* Rendering: what one run of draw puts on the canvas, with the opacity    *)
(* of each item in hundredths.                                             *)
(***************************************************************************)
\* the hovered node and its neighbours
highlightedNodes ==
  IF hoveredNode = NULL THEN {}
  ELSE {hoveredNode.id}
         \cup (IF hoveredNode.id \in Ids(nodes)
               THEN { links[i].target : i \in { j \in DOMAIN links : links[j].source = hoveredNode.id } }
                      \cup { links[i].source : i \in { j \in DOMAIN links : links[j].target = hoveredNode.id } }
               ELSE {})

\* the links of the model that are stroked: none while a focus target is set
DrawnLinks ==
  IF weakestPathNode # NULL THEN {}
  ELSE { [link |-> links[i],
          alpha |-> IF hoveredNode # NULL
                       /\ ~(links[i].source \in highlightedNodes /\ links[i].target \in highlightedNodes)
                    THEN 5 ELSE 30] :
           i \in { j \in DOMAIN links : links[j].source \in DOMAIN nodePositions
                                        /\ links[j].target \in DOMAIN nodePositions } }

\* the dashed links between consecutive path leaves
DrawnPathLinks ==
  IF weakestPathNode = NULL THEN {}
  ELSE { [link |-> weakestPathLinks[i], alpha |-> 90] :
           i \in { j \in DOMAIN weakestPathLinks :
                     weakestPathLinks[j].source \in DOMAIN nodePositions
                       /\ weakestPathLinks[j].target \in DOMAIN nodePositions } }

\* the nodes that are filled, dimmed to 0.05 when not highlighted or not on
\* the path
DrawnNodes ==
  { [id |-> nodes[i].id,
     alpha |-> IF (hoveredNode # NULL /\ nodes[i].id \notin highlightedNodes)
                    \/ (weakestPathNode # NULL /\ nodes[i].id \notin pathNodeIds)
               THEN 5 ELSE 100] :
      i \in { j \in DOMAIN nodes : nodes[j].id \in DOMAIN nodePositions } }

\* C34: in a frame drawn while a focus target is set, every node of the model
\* that is not on the path is filled at opacity 0.05, and every link of the
\* model is stroked at an opacity of at most 0.05.
C34_OffPathDrawnDimmed ==
  (weakestPathNode # NULL /\ dimensions.width # 0 /\ lastOp.op \in {"tick", "loopEffect"}) =>
    /\ \A i \in DOMAIN nodes :
         nodes[i].id \notin pathNodeIds => [id |-> nodes[i].id, alpha |-> 5] \in DrawnNodes
    /\ \A i \in DOMAIN links :
         \E d \in DrawnLinks \cup DrawnPathLinks : d.link = links[i] /\ d.alpha <= 5

(***************************************************************************)
(* The graph-model builder of the host: nodes and links from the question  *)
(* list and the filter node.                                               *)
(***************************************************************************)
MkQuestion(id, subject, topic, score) ==
  [id |-> id, subject |-> subject, topic |-> topic, masteryScore |-> score, hotTopic |-> FALSE]

subjectIdOf(q) == "subject-" \o q.subject
topicIdOf(q) == "topic-" \o q.subject \o "-" \o q.topic

\* subjectData / topicData: the sum of the scores and the number of the
\* questions whose field (subject or topic) is name
GroupData(qs, field, name) ==
  LET of == { i \in DOMAIN qs : (IF field = "subject" THEN qs[i].subject ELSE qs[i].topic) = name }
      sum[S \in SUBSET of] ==
        IF S = {} THEN 0 ELSE LET i == CHOOSE j \in S : TRUE IN qs[i].masteryScore + sum[S \ {i}]
  IN [masterySum |-> sum[of], questionCount |-> Cardinality(of)]

avgMastery(data) ==
  IF data.questionCount > 0 THEN data.masterySum \div data.questionCount ELSE 50

\* base + Math.min(Math.log2(questionCount + 1) * per, cap), whole part, for
\* the counts of the question lists used here
GroupRadius(type, count) ==
  IF type = "subject"
  THEN CASE count = 1 -> 14 [] count = 2 -> 15 [] count = 3 -> 17 [] OTHER -> 22
  ELSE CASE count = 1 -> 10 [] count = 2 -> 11 [] count = 3 -> 12 [] OTHER -> 16

RECURSIVE subjectNodes(_, _, _)
\* the subject nodes in the order of their first question; seen: ids set so far
subjectNodes(qs, all, seen) ==
  IF qs = << >> THEN << >>
  ELSE LET q == Head(qs)
           data == GroupData(all, "subject", q.subject)
       IN IF q.subject # "" /\ subjectIdOf(q) \notin seen
          THEN << MkNode(subjectIdOf(q), "subject", GroupRadius("subject", data.questionCount),
                         avgMastery(data), 0) >>
                 \o subjectNodes(Tail(qs), all, seen \cup {subjectIdOf(q)})
          ELSE subjectNodes(Tail(qs), all, seen)

RECURSIVE topicNodes(_, _, _)
topicNodes(qs, all, seen) ==
  IF qs = << >> THEN << >>
  ELSE LET q == Head(qs)
           data == GroupData(all, "topic", q.topic)
       IN IF q.topic # "" /\ topicIdOf(q) \notin seen
          THEN << MkNode(topicIdOf(q), "topic", GroupRadius("topic", data.questionCount),
                         avgMastery(data), 0) >>
                 \o topicNodes(Tail(qs), all, seen \cup {topicIdOf(q)})
          ELSE topicNodes(Tail(qs), all, seen)

questionNodes(qs) ==
  [i \in DOMAIN qs |->
     MkNode(qs[i].id, "question", IF qs[i].hotTopic THEN 7 ELSE 5, qs[i].masteryScore, 0)]

\* finalLinks.push unless the key source-target is in linkSet
PushLink(acc, source, target) ==
  IF (source \o "-" \o target) \in acc.linkSet THEN acc
  ELSE [acc EXCEPT !.finalLinks = Append(@, MkLink(source, target)),
                   !.linkSet = @ \cup {source \o "-" \o target}]

RECURSIVE finalLinks(_, _)
\* acc: finalLinks, linkSet and the ids of the topic nodes made so far
finalLinks(qs, acc) ==
  IF qs = << >> THEN acc.finalLinks
  ELSE LET q == Head(qs)
           withTopic == IF q.topic # "" /\ topicIdOf(q) \notin acc.topics
                        THEN [PushLink(acc, subjectIdOf(q), topicIdOf(q)) EXCEPT
                                !.topics = @ \cup {topicIdOf(q)}]
                        ELSE acc
       IN finalLinks(Tail(qs), PushLink(withTopic, topicIdOf(q), q.id))

allNodes(qs) == subjectNodes(qs, qs, {}) \o topicNodes(qs, qs, {}) \o questionNodes(qs)
allLinks(qs) == finalLinks(qs, [finalLinks |-> << >>, linkSet |-> {}, topics |-> {}])

\* the ids the filter's breadth-first walk over allLinks makes visible
visibleNodeIds(filterNode, ls) == Subtree({filterNode.id}, ls)

\* the value of the nodes/links memo
MapViewGraph(qs, filterNode) ==
  IF filterNode = NULL THEN [nodes |-> allNodes(qs), links |-> allLinks(qs)]
  ELSE LET visible == visibleNodeIds(filterNode, allLinks(qs))
       IN [nodes |-> SelectSeqBy(allNodes(qs), { n \in Range(allNodes(qs)) : n.id \in visible }),
           links |-> SelectSeqBy(allLinks(qs),
                                 { l \in Range(allLinks(qs)) :
                                     l.source \in visible /\ l.target \in visible })]

MaxBuilderRenders == 2
MaxBuilderTicks == 1

\* two questions of one topic, one with no topic and one with no subject
QuestionPool ==
  { MkQuestion("q1", "a", "t1", 80), MkQuestion("q2", "a", "t1", 20),
    MkQuestion("q3", "a", "", 50), MkQuestion("q4", "", "t1", 50) }

QuestionLists ==
  { << >> } \cup { << q >> : q \in QuestionPool }
    \cup UNION { { << p, q >> : q \in QuestionPool \ {p} } : p \in QuestionPool }

FilterNodes == { NULL, SubjectA, TopicA1 }

InitBuilder ==
  \E qs \in QuestionLists :
    Mounted(MapViewGraph(qs, NULL).nodes, MapViewGraph(qs, NULL).links, {50},
            Budget(MaxBuilderRenders, MaxBuilderTicks, 0, 0))

NextBuilder ==
  \/ (history.timerCause = {"mount"} /\ dimensions.width = 0 /\ SetDimensions(Viewport))
  \/ \E qs \in QuestionLists : \E f \in FilterNodes :
       SetQuestions(MapViewGraph(qs, f).nodes, MapViewGraph(qs, f).links)
  \/ LoopEffect
  \/ Tick

SpecBuilder == InitBuilder /\ [][NextBuilder]_vars

\* both ends of every link are nodes, and every node that is neither a
\* subject nor the filter node has exactly one incoming link
WellFormed(g, filterNode) ==
  /\ \A i \in DOMAIN g.links :
       g.links[i].source \in Ids(g.nodes) /\ g.links[i].target \in Ids(g.nodes)
  /\ \A i \in DOMAIN g.nodes :
       (g.nodes[i].type # "subject" /\ (filterNode = NULL \/ g.nodes[i].id # filterNode.id)) =>
         Cardinality({ j \in DOMAIN g.links : g.links[j].target = g.nodes[i].id }) = 1

\* C36: the nodes and links a commit receives from the builder, for whatever
\* question list and filter node they were built from, have every link
\* between two emitted nodes and exactly one incoming link per non-root node.
C36_BuilderEmitsForest ==
  [][\A qs \in QuestionLists : \A f \in FilterNodes :
       (/\ lastOp'.op = "render"
        /\ "nodes" \in lastOp'.changed
        /\ nodes' = MapViewGraph(qs, f).nodes
        /\ links' = MapViewGraph(qs, f).links) => WellFormed(Graph(nodes', links'), f)]_vars

(***************************************************************************)
(* ListView (part_002:14-210): the paginated table of questions.  Text is  *)
(* a sequence of one-character strings, so that toLowerCase and includes   *)
(* are computed character by character.                                    *)
(***************************************************************************)
questionsPerPage == 15
MaxListQuestions == 31
MaxListPage == 5

CharCode == [c \in {"0", "1", "2", "3", "4", "5", "6", "7", "8", "9",
                    "A", "B", "Q", "a", "b", "q", "z"} |->
               CASE c = "0" -> 48 [] c = "1" -> 49 [] c = "2" -> 50 [] c = "3" -> 51
                 [] c = "4" -> 52 [] c = "5" -> 53 [] c = "6" -> 54 [] c = "7" -> 55
                 [] c = "8" -> 56 [] c = "9" -> 57 [] c = "A" -> 65 [] c = "B" -> 66
                 [] c = "Q" -> 81 [] c = "a" -> 97 [] c = "b" -> 98 [] c = "q" -> 113
                 [] c = "z" -> 122]

toLowerCase(s) ==
  [i \in 1..Len(s) |-> CASE s[i] = "A" -> "a" [] s[i] = "B" -> "b" [] s[i] = "Q" -> "q"
                         [] OTHER -> s[i]]

includes(s, f) == \E i \in 0..(Len(s) - Len(f)) : SubSeq(s, i + 1, i + Len(f)) = f

RECURSIVE Digits(_)
Digits(n) ==
  LET d == << "0", "1", "2", "3", "4", "5", "6", "7", "8", "9" >>[(n % 10) + 1]
  IN  IF n < 10 THEN << d >> ELSE Digits(n \div 10) \o << d >>

\* The i-th question of the store: subjects alternate between "A" and "b".
ListQuestion(i) ==
  [questionRef |-> << "Q" >> \o Digits(i),
   subject |-> IF i % 2 = 1 THEN << "A" >> ELSE << "b" >>,
   topic |-> << "q" >>,
   masteryScore |-> (i * 37) % 101]

ListQuestions(n) == [i \in 1..n |-> ListQuestion(i)]
ListSizes == { 0, 1, questionsPerPage + 1, MaxListQuestions }
ListFilters == { << >>, << "a" >>, << "Q", "1" >>, << "z" >> }
SortableColumn == { "questionRef", "subject", "masteryScore" }

\* The < of JavaScript on two strings: by code unit, a proper prefix first.
RECURSIVE StringLess(_, _)
StringLess(a, b) ==
  IF b = << >> THEN FALSE
  ELSE IF a = << >> THEN TRUE
  ELSE IF CharCode[Head(a)] # CharCode[Head(b)] THEN CharCode[Head(a)] < CharCode[Head(b)]
  ELSE StringLess(Tail(a), Tail(b))

ValueLess(key, a, b) ==
  IF key = "masteryScore" THEN a[key] < b[key] ELSE StringLess(a[key], b[key])

\* The comparator of part_002:35-44.
sortCompare(cfg, a, b) ==
  IF ValueLess(cfg.key, a, b) THEN (IF cfg.direction = "ascending" THEN -1 ELSE 1)
  ELSE IF ValueLess(cfg.key, b, a) THEN (IF cfg.direction = "ascending" THEN 1 ELSE -1)
  ELSE 0

\* Array.prototype.sort is stable: an item goes after the items it does not precede.
RECURSIVE SortInsert(_, _, _)
SortInsert(cfg, sorted, q) ==
  IF sorted = << >> THEN << q >>
  ELSE IF sortCompare(cfg, q, sorted[Len(sorted)]) >= 0 THEN Append(sorted, q)
  ELSE Append(SortInsert(cfg, SubSeq(sorted, 1, Len(sorted) - 1), q), sorted[Len(sorted)])

RECURSIVE StableSort(_, _, _)
StableSort(cfg, items, acc) ==
  IF items = << >> THEN acc
  ELSE StableSort(cfg, Tail(items), SortInsert(cfg, acc, Head(items)))

filteredAndSortedQuestions(lv) ==
  LET f == toLowerCase(lv.filter)
      Keep(q) == \/ includes(toLowerCase(q.questionRef), f)
                 \/ includes(toLowerCase(q.subject), f)
                 \/ includes(toLowerCase(q.topic), f)
  IN  StableSort(lv.sortConfig, SelectSeq(lv.questions, Keep), << >>)

\* Math.ceil(length / questionsPerPage)
totalPages(lv) ==
  (Len(filteredAndSortedQuestions(lv)) + questionsPerPage - 1) \div questionsPerPage

\* The pagination bar exists only while totalPages > 1 (part_002:203).
PaginationShown(lv) == totalPages(lv) > 1

hookVars == << nodes, links, dimensions, layoutMode, weakestPathNode, parentMap,
               childrenMap, weakestPathNodes, weakestPathLinks, pathNodeIds,
               nodePositions, transform, targetTransform, isStable,
               orbitCenteringDone, dragStartPos, draggedNode, isDraggingNode,
               isPanning, hoveredNode, rafPending, rafIdLive, downEnv, moveEnv,
               upEnv, resetTimer, pointer, pc, lastOp, gesture, budget, randomValues,
               resizeTimer, history >>

\* The component mounts over the questions of the store (part_002:15-22).
MountListView(n) ==
  /\ listView = NULL
  /\ listView' = [questions |-> ListQuestions(n),
                  currentPage |-> 1,
                  filter |-> << >>,
                  sortConfig |-> [key |-> "questionRef", direction |-> "ascending"],
                  op |-> "mount"]
  /\ UNCHANGED hookVars

\* part_002:56-63
requestSort(key) ==
  /\ listView # NULL
  /\ LET direction == IF listView.sortConfig.key = key
                         /\ listView.sortConfig.direction = "ascending"
                      THEN "descending" ELSE "ascending"
     IN  listView' = [listView EXCEPT !.sortConfig = [key |-> key, direction |-> direction],
                                      !.currentPage = 1,
                                      !.op = "requestSort"]
  /\ UNCHANGED hookVars

\* The onChange of the filter input (part_002:161).
SetFilter(f) ==
  /\ listView # NULL
  /\ listView' = [listView EXCEPT !.filter = f, !.currentPage = 1, !.op = "setFilter"]
  /\ UNCHANGED hookVars

\* part_002:129-131, clicked on the enabled button of part_002:207.
handleNextPage ==
  /\ listView # NULL
  /\ PaginationShown(listView)
  /\ listView.currentPage # totalPages(listView)
  /\ listView' = [listView EXCEPT
                    !.currentPage = IF listView.currentPage < totalPages(listView)
                                    THEN listView.currentPage + 1
                                    ELSE listView.currentPage,
                    !.op = "handleNextPage"]
  /\ UNCHANGED hookVars

\* part_002:132-134, clicked on the enabled button of part_002:205.  The page
\* number is followed up to MaxListPage.
handlePrevPage ==
  /\ listView # NULL
  /\ PaginationShown(listView)
  /\ listView.currentPage # 1
  /\ listView.currentPage < MaxListPage
  /\ listView' = [listView EXCEPT
                    !.currentPage = IF listView.currentPage > 1
                                    THEN listView.currentPage + 1
                                    ELSE listView.currentPage,
                    !.op = "handlePrevPage"]
  /\ UNCHANGED hookVars

InitList == Mounted(<< >>, << >>, {50}, Budget(0, 0, 0, 0))

NextList ==
  \/ \E n \in ListSizes : MountListView(n)
  \/ \E key \in SortableColumn : requestSort(key)
  \/ \E f \in ListFilters : SetFilter(f)
  \/ handleNextPage
  \/ handlePrevPage

SpecList == InitList /\ [][NextList]_vars

\* C38: after any sequence of next-page, previous-page, filter and sort
\* operations the current page of the ListView is within 1..max(1, totalPages),
\* and the previous-page operation from a page p > 1 leads to page p - 1.
C38_PageStaysInRange ==
  [][listView' # NULL =>
       /\ listView'.currentPage >= 1
       /\ listView'.currentPage <= Max2(1, totalPages(listView'))
       /\ (listView # NULL /\ listView'.op = "handlePrevPage" /\ listView.currentPage > 1)
            => listView'.currentPage = listView.currentPage - 1]_vars

====
